---- MODULE Spec2Model ----
(***************************************************************************)
(* A model of the resilience core of the holiday destinations generator:   *)
(*   - DestinationService._safe_api_request  (bounded retry executor)      *)
(*   - CacheManager / RedisCacheBackend / DiskCacheBackend (two-tier cache) *)
(*   - CacheManager._generate_cache_key and the cached() decorator         *)
(*   - DestinationService.generate_destinations behind the decorator       *)
(* Each component has its own specification (SpecExec, SpecCache, ...)     *)
(* over the shared variables; the variables of the other components stay   *)
(* at their initial values.                                                *)
(***************************************************************************)
EXTENDS Integers, Sequences, FiniteSets, TLC

VARIABLES
    \* ---- settings (src/config/settings.py) ----
    max_retries,      \* settings.max_retries
    retry_delay,      \* settings.retry_delay
    \* ---- one call of _safe_api_request ----
    ex_pc,            \* "idle" | "loop" | "returned" | "raised"
    attempt,          \* the for-loop variable (0-based)
    calls,            \* outcomes of the invocations of chain(inputs), in order:
                      \*   0 = it returned, m > 0 = it raised ErrorTexts[m]
    log,              \* the except branch logged for each failed invocation, in order
    sleeps,           \* the arguments of asyncio.sleep, in order
    response,         \* what the call returned: the response of invocation
                      \*   number `response` (0 while nothing was returned)
    raised,           \* the DestinationGenerationErrors raised out of the call
    \* ---- the cache (src/core/cache.py) ----
    enable_caching,   \* settings.enable_caching
    enabled,          \* CacheManager.enabled
    redis_available,  \* RedisCacheBackend._available
    redis_store,      \* what the Redis server holds: key -> <<>> or <<pickled value>>
    disk_store,       \* what the diskcache directory holds: key -> <<>> or <<value>>
    c_last,           \* the last direct CacheManager call: arguments, backend outcomes, result
    c_prev,           \* the direct CacheManager.set call right before it, if it was one
    \* ---- two calls that derive a cache key (cache.py:223-226, 288-292) ----
    k_call1,          \* the arguments of the first call
    k_call2,          \* the arguments of the second call
    k_key1,           \* the key derived for the first call (NoKey until then)
    k_key2,           \* the key derived for the second call (NoKey until then)
    \* ---- the decorated generate_destinations (destination_service.py:394-493,
    \*      cache.py:284-303) ----
    g_pc,             \* "idle" | "listing" | "listing_wait" | "dests" |
                      \* "activity_wait" | "returned" | "raised"
    g_calls,          \* calls of generate_destinations started so far
    g_service,        \* self of the call in progress
    g_request,        \* request of the call in progress
    g_key,            \* cache_key of the wrapper (NoKey when caching is off)
    g_held,           \* what the two tiers held under cache_key when it was looked up
    g_lookup,         \* the wrapper's cache.get call
    g_exec,           \* the _safe_api_request calls of this call, in order
    g_sets,           \* the cache.set calls of this call
    g_records,        \* destination_data["destinations"] as parsed
    g_todo,           \* destination records not yet processed
    g_dests,          \* destinations (local list)
    g_result,         \* <<>> or <<the response returned to the caller>>
    g_error,          \* the exception raised to the caller, "" if none
    \* ---- one destination-listing answer on its way through
    \*      _parse_json_response and the loop of generate_destinations
    \*      (destination_service.py:295-330, 429-493) ----
    p_pc,             \* "start" | "parsed" | "returned" | "raised"
    p_input,          \* how the answer was put together (lines or JSON records)
    p_response,       \* destination_response["destinations"], the text
    p_fallback,       \* whether _fallback_parse was used
    p_data,           \* destination_data
    p_dests,          \* destinations (local list)
    p_error,          \* the exception raised to the caller, "" if none
    \* ---- one parsed activity answer on its way through the loop of
    \*      _generate_activities_for_destination (destination_service.py:522-585) ----
    a_pc,             \* "parsed" | "loop" | "returned"
    a_input,          \* the records the answer was put together from
    a_data,           \* activity_data
    a_todo,           \* activity records not yet processed
    a_log,            \* for each record processed, whether an Activity was built
    a_activities,     \* activities (local list), returned at the end
    \* ---- one activity answer on its way through _parse_json_response (destination_service.py:295-392) ----
    f_pc,             \* "start" | "fallback" | "done"
    f_input,          \* the lines the activity answer was put together from
    f_response,       \* response_text of the activity call
    f_fallback,       \* whether _fallback_parse was used
    f_data,           \* what _parse_json_response returned
    \* ---- the destinations of one response with their fields (destination_service.py:436-472) ----
    r_pc,             \* "loop" | "returned"
    r_include,        \* request.include_activities
    r_log,            \* the records and activity answers the loop went through
    r_dests,          \* destinations (local list), then response.destinations
    \* ---- one call of monitor_fine_tuning_job (fine_tuning.py:462-596) ----
    m_pc,             \* "top" | "poll" | "sleep" | "error_sleep" | "returned"
    m_max_wait,       \* max_wait_time, in seconds
    m_now,            \* time.time() - start_time, in seconds
    m_polls,          \* what each status poll gave and when it was issued
    m_wait,           \* wait_time of the sleep about to be taken
    m_sleeps,         \* the sleeps taken, each with the number of polls before it
    m_saves,          \* the calls of _save_model_info
    m_result,         \* the dict returned
    \* ---- the model metadata artifacts (fine_tuning.py:598-648) ----
    art_clock,        \* datetime.now(), in seconds
    art_files,        \* fine_tuned_models/model_info_<timestamp>.json, by timestamp
    art_saves,        \* the calls of _save_model_info made so far
    \* ---- one call of full_fine_tuning_pipeline (fine_tuning.py:679-725) ----
    pl_pc,            \* "generate" | "upload" | "create" | "monitor" | "done"
    pl_base_model,    \* base_model
    pl_path,          \* training_file_path
    pl_file_id,       \* training_file_id
    pl_job_id,        \* job_id
    pl_steps,         \* the steps called so far
    pl_failed,        \* the step that raised, if any
    pl_return,        \* what the pipeline returned
    pl_result,        \* the status monitor_fine_tuning_job returned
    pl_calls,         \* the provider calls made, in order, with their outcome
    \* ---- the legacy safe_request (langchain_helper.py:10-22) ----
    lg_pc,            \* "idle" | "loop" | "returned" | "raised" | "used"
    lg_request,       \* request_function: the chain invoked
    lg_attempt,       \* attempt of the for loop
    lg_calls,         \* the outcomes of the invocations made so far
    lg_sleeps,        \* the time.sleep calls made so far
    lg_return,        \* what safe_request returned
    lg_raised,        \* what safe_request (or its caller) raised
    \* ---- DestinationService.initiate_fine_tuning (destination_service.py:587-626) ----
    openai_model,     \* settings.openai_model
    fine_tuned_model_id,\* settings.fine_tuned_model_id ("None" when unset)
    use_fine_tuned_model,\* settings.use_fine_tuned_model
    t_pc,             \* "idle" | "awaiting" | "done"
    t_base_model,     \* base_model of the call
    t_before,         \* the settings when the call started
    t_llm_model,      \* the model self.llm was built with
    t_return,         \* what initiate_fine_tuning returned
    \* ---- concurrent calls of CacheManager.get and set on one key (cache.py:228-269) ----
    cc_pc,            \* per call slot: "idle" | "primary" | "durable" | "done"
    cc_op,            \* per call slot: "none" | "get" | "set"
    cc_val,           \* per call slot: the value passed to set
    cc_primary_ok,    \* per call slot: primary_success of set
    cc_result,        \* per call slot: what the call returned
    cc_started,       \* the number of calls started so far
    cc_passed,        \* the values passed to the set calls started so far
    cc_last_primary,  \* the value passed by the last set that wrote the primary tier
    cc_last_durable   \* the value passed by the last set that wrote the durable tier

keyVars == <<k_call1, k_call2, k_key1, k_key2>>

cacheVars == <<enable_caching, enabled, redis_available, redis_store, disk_store, c_last, c_prev>>
execVars == <<ex_pc, attempt, calls, log, sleeps, response, raised>>
settingsVars == <<max_retries, retry_delay>>
genVars == <<g_pc, g_calls, g_service, g_request, g_key, g_held, g_lookup, g_exec,
            g_sets, g_records, g_todo, g_dests, g_result, g_error>>
parseVars == <<p_pc, p_input, p_response, p_fallback, p_data, p_dests, p_error>>
actVars == <<a_pc, a_input, a_data, a_todo, a_log, a_activities>>
fbVars == <<f_pc, f_input, f_response, f_fallback, f_data>>
respVars == <<r_pc, r_include, r_log, r_dests>>
monVars == <<m_pc, m_max_wait, m_now, m_polls, m_wait, m_sleeps, m_saves, m_result>>
artVars == <<art_clock, art_files, art_saves>>
pipeVars == <<pl_pc, pl_base_model, pl_path, pl_file_id, pl_job_id, pl_steps, pl_failed, pl_return, pl_result, pl_calls>>
legacyVars == <<lg_pc, lg_request, lg_attempt, lg_calls, lg_sleeps, lg_return, lg_raised>>
tuneVars == <<openai_model, fine_tuned_model_id, use_fine_tuned_model, t_pc, t_base_model, t_before, t_llm_model, t_return>>
concVars == <<cc_pc, cc_op, cc_val, cc_primary_ok, cc_result, cc_started, cc_passed, cc_last_primary, cc_last_durable>>
vars == <<settingsVars, execVars, cacheVars, keyVars, genVars, parseVars, actVars, fbVars, respVars, monVars, artVars, pipeVars, legacyVars, tuneVars, concVars>>
notExec == <<cacheVars, keyVars, genVars, parseVars, actVars, fbVars, respVars, monVars, artVars, pipeVars, legacyVars, tuneVars, concVars>>
notCache == <<settingsVars, execVars, keyVars, genVars, parseVars, actVars, fbVars, respVars, monVars, artVars, pipeVars, legacyVars, tuneVars, concVars>>
notKey == <<settingsVars, execVars, cacheVars, genVars, parseVars, actVars, fbVars, respVars, monVars, artVars, pipeVars, legacyVars, tuneVars, concVars>>
notGen == <<settingsVars, execVars, keyVars, parseVars, actVars, fbVars, respVars, monVars, artVars, pipeVars, legacyVars, tuneVars, concVars>>
notParse == <<settingsVars, execVars, cacheVars, keyVars, genVars, actVars, fbVars, respVars, monVars, artVars, pipeVars, legacyVars, tuneVars, concVars>>
notAct == <<settingsVars, execVars, cacheVars, keyVars, genVars, parseVars, fbVars, respVars, monVars, artVars, pipeVars, legacyVars, tuneVars, concVars>>
notFb == <<settingsVars, execVars, cacheVars, keyVars, genVars, parseVars, actVars, respVars, monVars, artVars, pipeVars, legacyVars, tuneVars, concVars>>
notResp == <<settingsVars, execVars, cacheVars, keyVars, genVars, parseVars, actVars, fbVars, monVars, artVars, pipeVars, legacyVars, tuneVars, concVars>>
notMon == <<settingsVars, execVars, cacheVars, keyVars, genVars, parseVars, actVars, fbVars, respVars, artVars, pipeVars, legacyVars, tuneVars, concVars>>
notArt == <<settingsVars, execVars, cacheVars, keyVars, genVars, parseVars, actVars, fbVars, respVars, monVars, pipeVars, legacyVars, tuneVars, concVars>>
notPipe == <<settingsVars, execVars, cacheVars, keyVars, genVars, parseVars, actVars, fbVars, respVars, monVars, artVars, legacyVars, tuneVars, concVars>>
notLegacy == <<settingsVars, execVars, cacheVars, keyVars, genVars, parseVars, actVars, fbVars, respVars, monVars, artVars, pipeVars, tuneVars, concVars>>
notTune == <<settingsVars, execVars, cacheVars, keyVars, genVars, parseVars, actVars, fbVars, respVars, monVars, artVars, pipeVars, legacyVars, concVars>>
notConc == <<settingsVars, execVars, keyVars, genVars, parseVars, actVars, fbVars, respVars, monVars, artVars, pipeVars, legacyVars, tuneVars>>

\* ------------------------------------------------------------------ bounds
MaxRetries == 4
MaxDelay == 2
MaxVal == 2
MaxKwNames == 2
MaxServices == 2
MaxDests == 2
MaxGenCalls == 2
MaxLines == 6
MaxRecs == 2
MaxActs == 3
MaxActLines == 6
MaxRespRecs == 2
MaxWaitSteps == 4
MaxJobs == 2
MaxClock == 2
MaxSaves == 3
MaxProcs == 2
MaxConcCalls == 3

\* ------------------------------------------------------ program constants
CacheTtlDefault == 3600
WrapperTtl == 3600

\* --------------------------------------------------------------- text helpers
\* str.lower() on the characters that occur in the error texts below.
UpperLetters == <<"A", "B", "C", "D", "E", "F", "G", "H", "I", "J", "K", "L", "M",
                  "N", "O", "P", "Q", "R", "S", "T", "U", "V", "W", "X", "Y", "Z">>

LowerLetters == <<"a", "b", "c", "d", "e", "f", "g", "h", "i", "j", "k", "l", "m",
                  "n", "o", "p", "q", "r", "s", "t", "u", "v", "w", "x", "y", "z">>

LowerChar(c) ==
    IF \E i \in 1..26 : UpperLetters[i] = c
    THEN LowerLetters[CHOOSE i \in 1..26 : UpperLetters[i] = c]
    ELSE c

Lower(s) == [i \in 1..Len(s) |-> LowerChar(s[i])]

\* Python's `needle in haystack` on strings (sequences of characters).
Contains(haystack, needle) ==
    \E i \in 1..(Len(haystack) - Len(needle) + 1) :
        SubSeq(haystack, i, i + Len(needle) - 1) = needle

KwRateLimit == <<"r","a","t","e"," ","l","i","m","i","t">>
KwQuota == <<"q","u","o","t","a">>
KwApi == <<"a","p","i">>
KwAuthentication == <<"a","u","t","h","e","n","t","i","c","a","t","i","o","n">>

\* str(e) of the exceptions the chain raises in the model.
ErrorTexts == <<
    <<"R","a","t","e"," ","l","i","m","i","t">>,          \* 1 "Rate limit"
    <<"Q","U","O","T","A"," ","a","p","i">>,              \* 2 "QUOTA api"
    <<"A","P","I"," ","d","o","w","n">>,                  \* 3 "API down"
    <<"A","u","t","h","e","n","t","i","c","a","t","i","o","n">>, \* 4 "Authentication"
    <<"t","i","m","e","o","u","t">>,                      \* 5 "timeout"
    <<"r","a","p","i","d"," ","r","a","t","e">>           \* 6 "rapid rate"
>>

ErrorIds == 1..Len(ErrorTexts)

\* The if/elif/else of the except block: the class of an error text.
ClassifyMutNoLower(text) ==
    IF Contains(text, KwRateLimit) \/ Contains(text, KwQuota) THEN "rate_limit"
    ELSE IF Contains(text, KwApi) \/ Contains(text, KwAuthentication) THEN "api"
    ELSE "generic"

Classify(text) ==
    LET error_message == Lower(text) IN
    IF Contains(error_message, KwRateLimit) \/ Contains(error_message, KwQuota)
        THEN "rate_limit"
    ELSE IF Contains(error_message, KwApi) \/ Contains(error_message, KwAuthentication)
        THEN "api"
    ELSE "generic"

\* wait_time of the branch taken for an error of class cls at loop index i.
WaitTimeMutLinear(cls, i) ==
    IF cls = "rate_limit" THEN retry_delay * (i + 1) ELSE retry_delay

WaitTime(cls, i) ==
    IF cls = "rate_limit" THEN retry_delay * (2 ^ i) ELSE retry_delay

\* The DestinationGenerationError raised on exhaustion for the last error:
\* its message is `tag`, followed by max_retries (attempts, 0 when the message
\* holds none) or by str(e) (detail, empty when the message holds none).
ExhaustedError(cls, m) ==
    CASE cls = "rate_limit" -> [tag |-> "Rate limit exceeded after", attempts |-> max_retries, detail |-> <<>>]
      [] cls = "api"        -> [tag |-> "API error", attempts |-> 0, detail |-> ErrorTexts[m]]
      [] OTHER              -> [tag |-> "Unexpected error", attempts |-> 0, detail |-> ErrorTexts[m]]

\* ------------------------------------------------------- _safe_api_request
\* The range() of the for loop still has an index to hand out.
HasNextAttempt == attempt < max_retries

\* `attempt < settings.max_retries - 1`: a further attempt remains.
MayRetryMutGivesUpEarly == attempt < max_retries - 2

MayRetryMutSleepsAfterLast == attempt < max_retries

MayRetry == attempt < max_retries - 1

\* `return response` (line 244): the call ends with the invocation's response.
ReturnResponseMutNoReturn(resp) ==
    /\ response' = resp
    /\ ex_pc' = "loop"
    /\ attempt' = attempt + 1

ReturnResponse(resp) ==
    /\ response' = resp
    /\ ex_pc' = "returned"
    /\ attempt' = attempt

\* A call of _safe_api_request starts.
SafeApiRequestStart ==
    /\ ex_pc \in {"idle", "returned", "raised"}
    /\ ex_pc' = "loop"
    /\ attempt' = 0
    /\ calls' = <<>>
    /\ log' = <<>>
    /\ sleeps' = <<>>
    /\ response' = 0
    /\ raised' = <<>>
    /\ UNCHANGED <<settingsVars, notExec>>

\* One iteration whose chain(inputs) returns: the response is returned.
AttemptSucceeds ==
    /\ ex_pc = "loop"
    /\ HasNextAttempt
    /\ calls' = Append(calls, 0)
    /\ ReturnResponse(Len(calls) + 1)
    /\ UNCHANGED <<log, sleeps, raised, settingsVars, notExec>>

\* One iteration whose chain(inputs) raises, with a further attempt left:
\* the except block sleeps and the loop goes on.
AttemptFailsRetry ==
    /\ ex_pc = "loop"
    /\ HasNextAttempt
    /\ MayRetry
    /\ \E m \in ErrorIds :
        /\ calls' = Append(calls, m)
        /\ log' = Append(log, Classify(ErrorTexts[m]))
        /\ sleeps' = Append(sleeps, WaitTime(Classify(ErrorTexts[m]), attempt))
    /\ attempt' = attempt + 1
    /\ UNCHANGED <<ex_pc, response, raised, settingsVars, notExec>>

\* The last iteration's chain(inputs) raises: the except block raises.
AttemptFailsExhausted ==
    /\ ex_pc = "loop"
    /\ HasNextAttempt
    /\ ~MayRetry
    /\ \E m \in ErrorIds :
        /\ calls' = Append(calls, m)
        /\ log' = Append(log, Classify(ErrorTexts[m]))
        /\ raised' = Append(raised, ExhaustedError(Classify(ErrorTexts[m]), m))
    /\ ex_pc' = "raised"
    /\ UNCHANGED <<attempt, sleeps, response, settingsVars, notExec>>

\* The loop ends without return or raise (max_retries <= 0): line 293.
LoopFallsThrough ==
    /\ ex_pc = "loop"
    /\ ~HasNextAttempt
    /\ raised' = Append(raised, [tag |-> "Failed after all retries", attempts |-> 0, detail |-> <<>>])
    /\ ex_pc' = "raised"
    /\ UNCHANGED <<attempt, calls, log, sleeps, response, settingsVars, notExec>>

\* ---------------------------------------------------------------- the cache
\* The key of the calls followed below: the tiers keep each key on its own.
Keys == {1}

\* Python objects handed to the cache: <<>> is None, <<v>> an object that is
\* not None.
NoneVal == <<>>
Values == {NoneVal} \cup {<<v>> : v \in 1..MaxVal}

\* The ttl argument of set: 0 stands for None (and any falsy ttl).
TtlArgs == {0, 60}

\* pickle.dumps / pickle.loads
PickleDumps(v) == [pickled |-> v]
PickleLoads(b) == b.pickled

NoCall == [op |-> "none", key |-> 0, val |-> NoneVal, ttl |-> 0,
           primary |-> "skipped", durable |-> "skipped",
           value |-> NoneVal, success |-> FALSE, raised |-> FALSE]

\* RedisCacheBackend.get: the value, or None when the backend is unavailable,
\* the server call raises (fails) or the key is missing.
RedisGetOutcome(key, fails) ==
    IF ~redis_available THEN "unavailable"
    ELSE IF fails THEN "error"
    ELSE IF redis_store[key] = <<>> THEN "miss"
    ELSE "hit"

RedisGet(key, fails) ==
    IF RedisGetOutcome(key, fails) = "hit"
        THEN PickleLoads(redis_store[key][1])
        ELSE NoneVal

\* DiskCacheBackend.get: the value, or None when the read raises or the key
\* is missing (diskcache's default).
DiskGetOutcome(key, fails) ==
    IF fails THEN "error"
    ELSE IF disk_store[key] = <<>> THEN "miss"
    ELSE "hit"

DiskGet(key, fails) ==
    IF DiskGetOutcome(key, fails) = "hit" THEN disk_store[key][1] ELSE NoneVal

\* RedisCacheBackend.set: True when the write went through.
RedisSetOutcome(fails) ==
    IF ~redis_available THEN "unavailable"
    ELSE IF fails THEN "error"
    ELSE "ok"

\* DiskCacheBackend.set: True when the write went through.
DiskSetOutcome(fails) == IF fails THEN "error" ELSE "ok"

\* The `except Exception` clauses of the backends (lines 87, 103, 164, 176):
\* an error of a backend call never leaves the backend.
Escapes(outcome) == FALSE

\* self._cache.set(key, value, expire=ttl): the entry is replaced.
DiskWriteMutAddOnly(store, key, value) ==
    IF store[key] = <<>> THEN [store EXCEPT ![key] = <<value>>] ELSE store

DiskWrite(store, key, value) == [store EXCEPT ![key] = <<value>>]

\* self._redis.setex(key, ttl, serialized): the entry is replaced.
RedisWriteMutTorn(store, key, value) ==
    IF store[key] = <<>> \/ Len(value) < 2
    THEN [store EXCEPT ![key] = <<PickleDumps(value)>>]
    ELSE [store EXCEPT ![key] =
            <<PickleDumps(<<value[1]>> \o Tail(PickleLoads(store[key][1])))>>]

RedisWrite(store, key, value) == [store EXCEPT ![key] = <<PickleDumps(value)>>]

\* `ttl = ttl or settings.cache_ttl`
EffectiveTtl(ttl) == IF ttl # 0 THEN ttl ELSE CacheTtlDefault

\* `if value is not None` on the primary backend's answer: the durable tier
\* is asked only when this is false.
PrimaryAnsweredMutTruthy(value, outcome) == outcome # "unavailable"

PrimaryAnswered(value, outcome) == value # NoneVal

\* `return primary_success or fallback_success`
SetResultMutAnd(primary_success, fallback_success) ==
    primary_success /\ fallback_success

SetResult(primary_success, fallback_success) ==
    primary_success \/ fallback_success

\* The durable write of CacheManager.set: made whatever the primary did.
FallbackWriteAttemptedMutOnlyOnFailure(primary_success) == ~primary_success

FallbackWriteAttempted(primary_success) == TRUE

\* The set call that c_last records, for the call that follows it at once.
RememberSet ==
    IF c_last.op = "set"
    THEN [NoCall EXCEPT !.op = "set", !.key = c_last.key, !.val = c_last.val,
              !.primary = c_last.primary, !.durable = c_last.durable,
              !.success = c_last.success]
    ELSE NoCall

\* A backend call can raise only when it is made.
RedisFailures == IF enabled /\ redis_available THEN BOOLEAN ELSE {FALSE}
DiskFailures == IF enabled THEN BOOLEAN ELSE {FALSE}

\* CacheManager.get(key): the record of the call, its answer in `value`.
GetCall(key, redis_fails, disk_fails) ==
    IF ~enabled
    THEN [NoCall EXCEPT !.op = "get", !.key = key]
    ELSE LET pv == RedisGet(key, redis_fails)
             po == RedisGetOutcome(key, redis_fails)
         IN  IF PrimaryAnswered(pv, po)
             THEN [NoCall EXCEPT !.op = "get", !.key = key,
                       !.primary = po, !.value = pv, !.raised = Escapes(po)]
             ELSE [NoCall EXCEPT !.op = "get", !.key = key,
                       !.primary = po,
                       !.durable = DiskGetOutcome(key, disk_fails),
                       !.value = DiskGet(key, disk_fails),
                       !.raised = Escapes(po) \/
                                  Escapes(DiskGetOutcome(key, disk_fails))]

\* CacheManager.set(key, value, ttl): the record of the call, its answer in
\* `success`, and what the two stores hold after it.
SetCall(key, value, ttl, redis_fails, disk_fails) ==
    IF ~enabled
    THEN [NoCall EXCEPT !.op = "set", !.key = key, !.val = value, !.ttl = ttl]
    ELSE LET po == RedisSetOutcome(redis_fails)
             primary_success == po = "ok"
             do == IF FallbackWriteAttempted(primary_success)
                   THEN DiskSetOutcome(disk_fails) ELSE "skipped"
             fallback_success == do = "ok"
         IN  [NoCall EXCEPT !.op = "set", !.key = key, !.val = value,
                  !.ttl = EffectiveTtl(ttl), !.primary = po, !.durable = do,
                  !.success = SetResult(primary_success, fallback_success),
                  !.raised = Escapes(po) \/ Escapes(do)]

RedisAfterSet(call) ==
    IF call.primary = "ok" THEN RedisWrite(redis_store, call.key, call.val)
    ELSE redis_store

DiskAfterSet(call) ==
    IF call.durable = "ok" THEN DiskWrite(disk_store, call.key, call.val)
    ELSE disk_store

\* What CacheManager.get leaves in the primary tier: it only reads; a value
\* found in the durable tier is returned, not written to the primary tier.
RedisAfterGetMutPromotes(call) ==
    IF call.durable = "hit" /\ call.primary = "miss"
    THEN RedisWrite(redis_store, call.key, call.value)
    ELSE redis_store

RedisAfterGet(call) == redis_store

\* A call of CacheManager.get from outside the decorator.
CacheGet ==
    \E key \in Keys, redis_fails \in RedisFailures, disk_fails \in DiskFailures :
        LET call == GetCall(key, redis_fails, disk_fails) IN
        /\ c_last' = call
        /\ redis_store' = RedisAfterGet(call)
        /\ c_prev' = RememberSet
        /\ UNCHANGED <<enable_caching, enabled, redis_available, disk_store, notCache>>

\* A call of CacheManager.set from outside the decorator.
CacheSet ==
    \E key \in Keys, value \in Values, ttl \in TtlArgs,
       redis_fails \in RedisFailures, disk_fails \in DiskFailures :
        LET call == SetCall(key, value, ttl, redis_fails, disk_fails) IN
        /\ c_last' = call
        /\ redis_store' = RedisAfterSet(call)
        /\ disk_store' = DiskAfterSet(call)
        /\ c_prev' = RememberSet
        /\ UNCHANGED <<enable_caching, enabled, redis_available, notCache>>

\* ------------------------------------------------------- cache key derivation
\* Keyword names are numbered in their alphabetical order.
KwNames == 1..MaxKwNames
KwValues == {1, 2}
Prefixes == {"default", "destinations"}
PosArgs == {<<>>, <<1>>, <<2>>}

\* **kwargs: name/value pairs in the order the caller wrote them, names distinct.
KwargsSeqs ==
    {kw \in UNION {[1..n -> KwNames \X KwValues] : n \in 0..MaxKwNames} :
        \A i, j \in 1..Len(kw) : i # j => kw[i][1] # kw[j][1]}

\* Python's order on (name, value) tuples.
TupleLess(a, b) == a[1] < b[1] \/ (a[1] = b[1] /\ a[2] < b[2])

RECURSIVE InsertSorted(_, _)
InsertSorted(sorted, x) ==
    IF sorted = <<>> THEN <<x>>
    ELSE IF TupleLess(x, Head(sorted)) THEN <<x>> \o sorted
    ELSE <<Head(sorted)>> \o InsertSorted(Tail(sorted), x)

RECURSIVE PySorted(_)
PySorted(s) == IF s = <<>> THEN <<>> ELSE InsertSorted(PySorted(Tail(s)), Head(s))

\* sorted(kwargs.items())
SortedItemsMutUnsorted(kwargs) == kwargs

SortedItems(kwargs) == PySorted(kwargs)

\* f"{prefix}:{str(args)}:{str(sorted(kwargs.items()))}"
KeyData(prefix, args, kwargs) == <<prefix, args, SortedItems(kwargs)>>

\* hashlib.md5(...).hexdigest(): taken as collision-free on the model's inputs.
Md5Hex(data) == [md5 |-> data]

NoKey == [md5 |-> <<>>]

\* CacheManager._generate_cache_key(prefix, *args, **kwargs)
GenerateCacheKey(prefix, args, kwargs) == Md5Hex(KeyData(prefix, args, kwargs))

\* GenerationRequest (schemas.py:82-90); user_preferences 0 stands for None.
Themes == {"Sports", "Scientific"}
Counts == {1, 3}
Preferences == {0, 1}
Requests ==
    [theme : Themes, count : Counts, include_activities : BOOLEAN,
     user_preferences : Preferences]

\* DestinationService instances, told apart by their identity.
Services == 1..MaxServices

\* str() of a tuple uses repr() of its items. DestinationService defines no
\* __repr__: object's default one names the class and the instance's address.
ReprService(service) == [class |-> "DestinationService", at |-> service]

\* pydantic's __repr__ lists every field of the model.
ReprRequest(request) ==
    [class |-> "GenerationRequest", theme |-> request.theme,
     count |-> request.count,
     include_activities |-> request.include_activities,
     user_preferences |-> request.user_preferences]

\* f"{prefix}:{func.__name__}" of @cached(prefix="destinations") on
\* generate_destinations.
WrapperPrefix == "destinations:generate_destinations"

\* cached.wrapper with key_func None: the key of generate_destinations(self,
\* request) is derived from args = (self, request) and no keyword arguments.
WrapperCacheKey(service, request) ==
    GenerateCacheKey(WrapperPrefix, <<ReprService(service), ReprRequest(request)>>, <<>>)

NoRequest == [theme |-> "", count |-> 0, include_activities |-> FALSE,
              user_preferences |-> 0]

\* A direct call of _generate_cache_key.
DirectCalls ==
    {[kind |-> "direct", prefix |-> p, args |-> a, kwargs |-> kw,
      service |-> 0, request |-> NoRequest] :
        p \in Prefixes, a \in PosArgs, kw \in KwargsSeqs}

\* A call of the decorated generate_destinations.
WrapperCalls ==
    {[kind |-> "wrapper", prefix |-> WrapperPrefix, args |-> <<>>, kwargs |-> <<>>,
      service |-> sv, request |-> r] :
        sv \in Services, r \in Requests}

KeyOf(call) ==
    IF call.kind = "direct"
    THEN GenerateCacheKey(call.prefix, call.args, call.kwargs)
    ELSE WrapperCacheKey(call.service, call.request)

DeriveKey1 ==
    /\ k_key1 = NoKey
    /\ k_key1' = KeyOf(k_call1)
    /\ UNCHANGED <<k_call1, k_call2, k_key2, notKey>>

DeriveKey2 ==
    /\ k_key2 = NoKey
    /\ k_key2' = KeyOf(k_call2)
    /\ UNCHANGED <<k_call1, k_call2, k_key1, notKey>>

\* ------------------------------------------- the decorated generate_destinations
\* The service instance, the requests and the keys of the calls followed below.
GenServices == {1}

GenRequests ==
    {r \in Requests : r.theme = "Sports" /\ r.count = 1 /\ r.user_preferences = 0}

GenKeys == {WrapperCacheKey(sv, r) : sv \in GenServices, r \in GenRequests}

\* One record of destination_data["destinations"]: a place the Destination
\* model accepts, or a record it rejects (place 0).
DestRecords == {[place |-> 0]} \cup {[place |-> i] : i \in 1..MaxDests}

RecordValid(dest_info) == dest_info.place # 0

\* What `await self._safe_api_request(self.destination_chain, ...)` and the
\* parse after it give: the executor raises, or it returns a text whose parsed
\* form has no usable "destinations" (destination_data.get raises), or a list
\* of records. The places of a listing are told apart by their position.
ListingOutcomes ==
    {[kind |-> "raised", records |-> <<>>], [kind |-> "unusable", records |-> <<>>]}
    \cup {[kind |-> "records", records |-> rs] :
            rs \in {l \in UNION {[1..n -> DestRecords] : n \in 0..MaxDests} :
                        \A i \in 1..Len(l) : l[i].place \in {0, i}}}

\* What _generate_activities_for_destination gives: the activities built from
\* the executor's answer, or [] when the executor (or anything else) raised.
ActivityOutcomes == {"returned", "raised"}

ActivitiesOfMutKeepsSome(outcome) == <<1>>

ActivitiesOf(outcome) == IF outcome = "returned" THEN <<1>> ELSE <<>>

NoHeld == [primary |-> <<>>, durable |-> <<>>]

\* `if cached_result is not None`
CachedHitMutPrimaryOnly(lookup) == lookup.primary = "hit"

CachedHit(lookup) == lookup.value # NoneVal

\* GenerationResponse(destinations=..., theme=request.theme, ...)
GenerationResponse(destinations, request) ==
    [destinations |-> destinations, theme |-> request.theme]

\* cached.wrapper up to the first call of the executor: settings check, key
\* derivation, cache.get, and the return of a cached result.
GenerateDestinationsCall ==
    /\ g_pc \in {"idle", "returned", "raised"}
    /\ g_calls < MaxGenCalls
    /\ \E service \in GenServices, request \in GenRequests,
          redis_fails \in RedisFailures, disk_fails \in DiskFailures :
        LET key == WrapperCacheKey(service, request)
            lookup == GetCall(key, redis_fails, disk_fails)
        IN  /\ g_calls' = g_calls + 1
            /\ g_service' = service
            /\ g_request' = request
            /\ g_exec' = <<>>
            /\ g_sets' = <<>>
            /\ g_records' = <<>>
            /\ g_todo' = <<>>
            /\ g_dests' = <<>>
            /\ g_error' = ""
            /\ IF ~enable_caching
               THEN /\ g_key' = NoKey
                    /\ g_held' = NoHeld
                    /\ g_lookup' = NoCall
                    /\ g_pc' = "listing"
                    /\ g_result' = <<>>
               ELSE /\ g_key' = key
                    /\ g_held' = [primary |-> redis_store[key],
                                  durable |-> disk_store[key]]
                    /\ g_lookup' = lookup
                    /\ IF CachedHit(lookup)
                       THEN g_pc' = "returned" /\ g_result' = lookup.value
                       ELSE g_pc' = "listing" /\ g_result' = <<>>
    /\ UNCHANGED <<cacheVars, notGen>>

\* An executor call that was awaited has finished: its entry, the last one,
\* gets its outcome.
Settle(exec, outcome) == [exec EXCEPT ![Len(exec)].outcome = outcome]

\* `for dest_info in ...`: the loop takes the records from the front.
NextRecordMutLast(todo) == todo[Len(todo)]

NextRecord(todo) == Head(todo)

\* `continue` in the except block of the loop body: on to the next record.
ContinueLoopMutBreak(todo) == <<>>

ContinueLoop(todo) == Tail(todo)

\* The listing step ends in the outer except block: the executor raised, or
\* the parsed answer has no usable "destinations".
ListingFailedMutOnlyUnusable(outcome) == outcome.kind = "unusable"

ListingFailed(outcome) == outcome.kind # "records"

\* generate_destinations from its entry to the await of the
\* destination-listing call.
ListingCall ==
    /\ g_pc = "listing"
    /\ g_exec' = Append(g_exec,
           [context |-> "destination generation", place |-> 0, outcome |-> "pending"])
    /\ g_pc' = "listing_wait"
    /\ UNCHANGED <<g_calls, g_service, g_request, g_key, g_held, g_lookup, g_sets,
                   g_records, g_todo, g_dests, g_result, g_error, cacheVars, notGen>>

\* The destination-listing call finishes; its answer is parsed, or the error
\* is turned into DestinationGenerationError.
ListingReturns ==
    /\ g_pc = "listing_wait"
    /\ \E outcome \in ListingOutcomes :
        /\ g_exec' = Settle(g_exec,
               IF outcome.kind = "raised" THEN "raised" ELSE "returned")
        /\ IF ListingFailed(outcome)
           THEN /\ g_pc' = "raised"
                /\ g_records' = <<>>
                /\ g_todo' = <<>>
                /\ g_error' = "DestinationGenerationError"
           ELSE /\ g_pc' = "dests"
                /\ g_records' = outcome.records
                /\ g_todo' = outcome.records
                /\ g_error' = ""
    /\ UNCHANGED <<g_calls, g_service, g_request, g_key, g_held, g_lookup, g_sets,
                   g_dests, g_result, cacheVars, notGen>>

\* One turn of `for dest_info in destination_data.get("destinations", [])` up
\* to its end or to the await of the activity call.
ProcessDestination ==
    /\ g_pc = "dests"
    /\ g_todo # <<>>
    /\ LET dest_info == NextRecord(g_todo) IN
        IF ~RecordValid(dest_info)
        THEN /\ g_todo' = ContinueLoop(g_todo)
             /\ UNCHANGED <<g_pc, g_exec, g_dests>>
        ELSE IF g_request.include_activities
        THEN /\ g_exec' = Append(g_exec,
                    [context |-> "activity generation", place |-> dest_info.place,
                     outcome |-> "pending"])
             /\ g_pc' = "activity_wait"
             /\ UNCHANGED <<g_todo, g_dests>>
        ELSE /\ g_dests' = Append(g_dests,
                     [place |-> dest_info.place, activities |-> <<>>])
             /\ g_todo' = Tail(g_todo)
             /\ UNCHANGED <<g_pc, g_exec>>
    /\ UNCHANGED <<g_calls, g_service, g_request, g_key, g_held, g_lookup, g_sets,
                   g_records, g_result, g_error, cacheVars, notGen>>

\* _generate_activities_for_destination finishes: the destination gets its
\* activities and is appended.
ActivityReturns ==
    /\ g_pc = "activity_wait"
    /\ \E outcome \in ActivityOutcomes :
        /\ g_exec' = Settle(g_exec, outcome)
        /\ g_dests' = Append(g_dests,
               [place |-> g_exec[Len(g_exec)].place,
                activities |-> ActivitiesOf(outcome)])
    /\ g_todo' = Tail(g_todo)
    /\ g_pc' = "dests"
    /\ UNCHANGED <<g_calls, g_service, g_request, g_key, g_held, g_lookup, g_sets,
                   g_records, g_result, g_error, cacheVars, notGen>>

\* `await cache.set(cache_key, result, ttl)`: the one write of the wrapper.
WrapperSetsMutTwice(call) == <<call, call>>

WrapperSets(call) == <<call>>

\* The end of generate_destinations and the rest of cached.wrapper: the
\* response is built and returned, the wrapper stores it and returns it.
GenerateDestinationsReturn ==
    /\ g_pc = "dests"
    /\ g_todo = <<>>
    /\ LET result == <<GenerationResponse(g_dests, g_request)>> IN
        /\ g_result' = result
        /\ g_pc' = "returned"
        /\ IF ~enable_caching
           THEN UNCHANGED <<g_sets, redis_store, disk_store>>
           ELSE \E redis_fails \in RedisFailures, disk_fails \in DiskFailures :
                LET call == SetCall(g_key, result, WrapperTtl, redis_fails, disk_fails)
                IN  /\ g_sets' = g_sets \o WrapperSets(call)
                    /\ redis_store' = RedisAfterSet(call)
                    /\ disk_store' = DiskAfterSet(call)
    /\ UNCHANGED <<g_calls, g_service, g_request, g_key, g_held, g_lookup, g_exec,
                   g_records, g_todo, g_dests, g_error, enable_caching, enabled,
                   redis_available, c_last, c_prev, notGen>>


\* --------------------------------------------------- response texts and parsing
\* Texts are sequences of characters; parsed JSON values are records of one
\* shape: t is the type, s the characters of a string, n the number, keys and
\* items the members of an object, items the elements of a list.
JNull == [t |-> "null", s |-> <<>>, n |-> 0, keys |-> <<>>, items |-> <<>>]
JBool(b) == [JNull EXCEPT !.t = IF b THEN "true" ELSE "false"]
JNum(n) == [JNull EXCEPT !.t = "num", !.n = n]
JStr(s) == [JNull EXCEPT !.t = "str", !.s = s]
JList(items) == [JNull EXCEPT !.t = "list", !.items = items]
JObj(keys, items) == [JNull EXCEPT !.t = "obj", !.keys = keys, !.items = items]

\* str.strip() without arguments removes whitespace at both ends.
Whitespace == {" ", "\n", "\t", "\r"}

RECURSIVE LStrip(_)
LStrip(s) == IF s # <<>> /\ Head(s) \in Whitespace THEN LStrip(Tail(s)) ELSE s

RECURSIVE RStrip(_)
RStrip(s) ==
    IF s # <<>> /\ s[Len(s)] \in Whitespace THEN RStrip(SubSeq(s, 1, Len(s) - 1)) ELSE s

Strip(s) == RStrip(LStrip(s))

\* str.find(c) + 1: the first position of c in s, 0 when there is none.
FirstIndex(s, c) ==
    IF \E i \in 1..Len(s) : s[i] = c
    THEN CHOOSE i \in 1..Len(s) : s[i] = c /\ \A j \in 1..(i - 1) : s[j] # c
    ELSE 0

\* str.split(sep): always at least one piece.
RECURSIVE Split(_, _)
Split(s, sep) ==
    LET i == FirstIndex(s, sep) IN
    IF i = 0 THEN <<s>>
    ELSE <<SubSeq(s, 1, i - 1)>> \o Split(SubSeq(s, i + 1, Len(s)), sep)

\* str.split(sep, 1)
SplitOnce(s, sep) ==
    LET i == FirstIndex(s, sep) IN
    IF i = 0 THEN <<s>> ELSE <<SubSeq(s, 1, i - 1), SubSeq(s, i + 1, Len(s))>>

StartsWith(s, c) == s # <<>> /\ s[1] = c

Map(f(_), seq) == [i \in 1..Len(seq) |-> f(seq[i])]

NonEmpty(s) == s # <<>>

\* seq[:n]
TakeMutAll(seq, n) == seq

Take(seq, n) == SubSeq(seq, 1, IF Len(seq) < n THEN Len(seq) ELSE n)

\* `for line in lines[:5]`
FallbackLimit == 5

\* [line.strip() for line in response.split('\n') if line.strip()]
StrippedLines(text) == SelectSeq(Map(Strip, Split(text, "\n")), NonEmpty)

\* `if ',' in line and not line.startswith('{') and not line.startswith('"')`
IsDestinationLine(line) ==
    /\ FirstIndex(line, ",") # 0
    /\ ~StartsWith(line, "{")
    /\ ~StartsWith(line, "\"")

KeyPlace == <<"p", "l", "a", "c", "e">>
KeyCountry == <<"c", "o", "u", "n", "t", "r", "y">>
KeyDescription == <<"d", "e", "s", "c", "r", "i", "p", "t", "i", "o", "n">>
KeyBestTime == <<"b", "e", "s", "t", "_", "t", "i", "m", "e", "_", "t", "o", "_", "v", "i", "s", "i", "t">>
KeyCoordinates == <<"c", "o", "o", "r", "d", "i", "n", "a", "t", "e", "s">>
KeyRating == <<"r", "a", "t", "i", "n", "g">>
KeyDestinations == <<"d", "e", "s", "t", "i", "n", "a", "t", "i", "o", "n", "s">>
KeyLat == <<"l", "a", "t">>
KeyLng == <<"l", "n", "g">>

\* The record _fallback_parse makes of one line.
FallbackRecord(line) ==
    LET parts == SplitOnce(line, ",") IN
    JObj(<<KeyPlace, KeyCountry, KeyDescription, KeyBestTime, KeyCoordinates, KeyRating>>,
         <<JStr(Strip(parts[1])), JStr(Strip(parts[2])),
           JStr(<<"G", "e", "n", "e", "r", "a", "t", "e", "d", " ", "d", "e", "s", "t", "i", "n", "a", "t", "i", "o", "n">>), JStr(<<"Y", "e", "a", "r", "-", "r", "o", "u", "n", "d">>),
           JObj(<<KeyLat, KeyLng>>, <<JNum(0), JNum(0)>>), JNum(4)>>)

\* _fallback_parse(response, context) with "destination" in context.lower()
FallbackParse(text) ==
    JObj(<<KeyDestinations>>,
         <<JList(Map(FallbackRecord,
                     SelectSeq(Take(StrippedLines(text), FallbackLimit),
                               IsDestinationLine)))>>)

\* json.loads on the texts followed here: objects, lists, strings without
\* escapes, non-negative integers and the three literals.
Digits == <<"0", "1", "2", "3", "4", "5", "6", "7", "8", "9">>

IsDigit(c) == \E d \in 1..10 : Digits[d] = c

DigitVal(c) == (CHOOSE d \in 1..10 : Digits[d] = c) - 1

\* The character at position i, "" past the end of the text.
At(t, i) == IF i >= 1 /\ i <= Len(t) THEN t[i] ELSE ""

RECURSIVE SkipWs(_, _)
SkipWs(t, i) == IF At(t, i) \in Whitespace THEN SkipWs(t, i + 1) ELSE i

MatchAt(t, i, lit) ==
    i + Len(lit) - 1 <= Len(t) /\ SubSeq(t, i, i + Len(lit) - 1) = lit

ParseFail == [ok |-> FALSE, v |-> JNull, next |-> 0]

ParseOk(v, next) == [ok |-> TRUE, v |-> v, next |-> next]

\* A string starts at i: up to the closing quote, no control character inside.
ParseString(t, i) ==
    LET rest == SubSeq(t, i + 1, Len(t))
        j == FirstIndex(rest, "\"")
    IN  IF j = 0 THEN ParseFail
        ELSE IF \E k \in 1..(j - 1) : rest[k] \in {"\n", "\t", "\r"} THEN ParseFail
        ELSE ParseOk(JStr(SubSeq(rest, 1, j - 1)), i + j + 1)

RECURSIVE DigitsEnd(_, _)
DigitsEnd(t, i) == IF IsDigit(At(t, i)) THEN DigitsEnd(t, i + 1) ELSE i

RECURSIVE NumVal(_)
NumVal(ds) ==
    IF ds = <<>> THEN 0
    ELSE 10 * NumVal(SubSeq(ds, 1, Len(ds) - 1)) + DigitVal(ds[Len(ds)])

\* Digits start at i: 0, or a digit 1-9 followed by digits.
ParseUnsigned(t, i) ==
    IF t[i] = "0" THEN ParseOk(JNum(0), i + 1)
    ELSE ParseOk(JNum(NumVal(SubSeq(t, i, DigitsEnd(t, i) - 1))), DigitsEnd(t, i))

\* A number starts at i: an optional minus sign, then the digits.
ParseNumber(t, i) ==
    IF t[i] = "-"
    THEN IF IsDigit(At(t, i + 1))
         THEN ParseOk(JNum(0 - ParseUnsigned(t, i + 1).v.n), ParseUnsigned(t, i + 1).next)
         ELSE ParseFail
    ELSE ParseUnsigned(t, i)

RECURSIVE ParseValue(_, _)
RECURSIVE ParseElements(_, _, _)
RECURSIVE ParseMembers(_, _, _, _)

\* The elements of a list, the first of them starting at i.
ParseElements(t, i, acc) ==
    LET r == ParseValue(t, i) IN
    IF ~r.ok THEN ParseFail
    ELSE LET k == SkipWs(t, r.next) IN
         IF At(t, k) = "," THEN ParseElements(t, SkipWs(t, k + 1), Append(acc, r.v))
         ELSE IF At(t, k) = "]" THEN ParseOk(JList(Append(acc, r.v)), k + 1)
         ELSE ParseFail

\* The members of an object, the first key starting at i.
ParseMembers(t, i, keys, items) ==
    IF At(t, i) # "\"" THEN ParseFail
    ELSE LET key == ParseString(t, i) IN
         IF ~key.ok THEN ParseFail
         ELSE LET c == SkipWs(t, key.next) IN
              IF At(t, c) # ":" THEN ParseFail
              ELSE LET r == ParseValue(t, SkipWs(t, c + 1)) IN
                   IF ~r.ok THEN ParseFail
                   ELSE LET k == SkipWs(t, r.next) IN
                        IF At(t, k) = ","
                        THEN ParseMembers(t, SkipWs(t, k + 1),
                                 Append(keys, key.v.s), Append(items, r.v))
                        ELSE IF At(t, k) = "}"
                        THEN ParseOk(JObj(Append(keys, key.v.s), Append(items, r.v)), k + 1)
                        ELSE ParseFail

ParseValue(t, i) ==
    LET c == At(t, i) IN
    IF c = "\"" THEN ParseString(t, i)
    ELSE IF IsDigit(c) \/ c = "-" THEN ParseNumber(t, i)
    ELSE IF c = "[" THEN
        (IF At(t, SkipWs(t, i + 1)) = "]"
         THEN ParseOk(JList(<<>>), SkipWs(t, i + 1) + 1)
         ELSE ParseElements(t, SkipWs(t, i + 1), <<>>))
    ELSE IF c = "{" THEN
        (IF At(t, SkipWs(t, i + 1)) = "}"
         THEN ParseOk(JObj(<<>>, <<>>), SkipWs(t, i + 1) + 1)
         ELSE ParseMembers(t, SkipWs(t, i + 1), <<>>, <<>>))
    ELSE IF MatchAt(t, i, <<"n", "u", "l", "l">>) THEN ParseOk(JNull, i + 4)
    ELSE IF MatchAt(t, i, <<"t", "r", "u", "e">>) THEN ParseOk(JBool(TRUE), i + 4)
    ELSE IF MatchAt(t, i, <<"f", "a", "l", "s", "e">>) THEN ParseOk(JBool(FALSE), i + 5)
    ELSE ParseFail

\* json.loads(text): ok is FALSE where it raises JSONDecodeError.
JsonLoads(text) ==
    LET r == ParseValue(text, SkipWs(text, 1)) IN
    IF r.ok /\ SkipWs(text, r.next) = Len(text) + 1 THEN r ELSE ParseFail

\* _parse_json_response(response, "destination generation")
UsesFallbackMutAlways(text) == TRUE

UsesFallback(text) == ~JsonLoads(text).ok

ParseJsonResponse(text) ==
    IF UsesFallback(text) THEN FallbackParse(text) ELSE JsonLoads(text).v

\* dict.get(key, default): a repeated key keeps its last value.
DictGet(obj, key, default) ==
    IF \E i \in 1..Len(obj.keys) : obj.keys[i] = key
    THEN obj.items[CHOOSE i \in 1..Len(obj.keys) :
                       obj.keys[i] = key /\ \A j \in (i + 1)..Len(obj.keys) : obj.keys[j] # key]
    ELSE default

HasKey(obj, key) == \E i \in 1..Len(obj.keys) : obj.keys[i] = key

\* Iterating over a str gives its characters, over a dict its keys.
IterItems(v) ==
    IF v.t = "list" THEN v.items
    ELSE IF v.t = "str" THEN [i \in 1..Len(v.s) |-> JStr(<<v.s[i]>>)]
    ELSE [i \in 1..Len(v.keys) |-> JStr(v.keys[i])]

Iterable(v) == v.t \in {"list", "str", "obj"}

\* Field(..., min_length=lo, max_length=hi) on a required str field.
RequiredStr(v, lo, hi) == v.t = "str" /\ Len(v.s) >= lo /\ Len(v.s) <= hi

\* Optional[str] = Field(None, max_length=hi)
OptionalStr(v, hi) == v.t = "null" \/ (v.t = "str" /\ Len(v.s) <= hi)

\* Optional[float] = Field(None, ge=lo, le=hi)
OptionalNumber(v, lo, hi) == v.t = "null" \/ (v.t = "num" /\ v.n >= lo /\ v.n <= hi)

\* -90 <= v["lat"] <= 90
LatitudeValidMutNoUpper(n) == n >= -90

LatitudeValid(n) == n >= -90 /\ n <= 90

\* -180 <= v["lng"] <= 180
LongitudeValid(n) == n >= -180 /\ n <= 180

\* Optional[Dict[str, float]] and validate_coordinates.
CoordinatesValid(v) ==
    \/ v.t = "null"
    \/ /\ v.t = "obj"
       /\ \A i \in 1..Len(v.items) : v.items[i].t = "num"
       /\ HasKey(v, KeyLat) /\ HasKey(v, KeyLng)
       /\ LatitudeValid(DictGet(v, KeyLat, JNull).n)
       /\ LongitudeValid(DictGet(v, KeyLng, JNull).n)

DefaultPlace == JStr(<<"U", "n", "k", "n", "o", "w", "n", " ", "P", "l", "a", "c", "e">>)
DefaultCountry == JStr(<<"U", "n", "k", "n", "o", "w", "n", " ", "C", "o", "u", "n", "t", "r", "y">>)

\* Destination(place=dest_info.get("place", "Unknown Place"), ...) raises
\* nothing: dest_info is a dict and every field passes validation.
DestinationValid(dest_info) ==
    /\ dest_info.t = "obj"
    /\ RequiredStr(DictGet(dest_info, KeyPlace, DefaultPlace), 1, 100)
    /\ RequiredStr(DictGet(dest_info, KeyCountry, DefaultCountry), 1, 100)
    /\ OptionalStr(DictGet(dest_info, KeyDescription, JNull), 2000)
    /\ OptionalStr(DictGet(dest_info, KeyBestTime, JNull), 200)
    /\ CoordinatesValid(DictGet(dest_info, KeyCoordinates, JNull))
    /\ OptionalNumber(DictGet(dest_info, KeyRating, JNull), 0, 5)

BuildDestination(dest_info) ==
    [place |-> DictGet(dest_info, KeyPlace, DefaultPlace).s,
     country |-> DictGet(dest_info, KeyCountry, DefaultCountry).s]

\* destination_data.get("destinations", []) and the start of the loop raise
\* nothing: destination_data is a dict and the value can be iterated.
ListingUsable(data) ==
    data.t = "obj" /\ Iterable(DictGet(data, KeyDestinations, JList(<<>>)))

\* The loop over the records: the destinations built, the others skipped.
BuildDestinations(data) ==
    Map(BuildDestination,
        SelectSeq(IterItems(DictGet(data, KeyDestinations, JList(<<>>))),
                  DestinationValid))

\* destination_data = self._parse_json_response(...)
ParseListing ==
    /\ p_pc = "start"
    /\ p_fallback' = UsesFallback(p_response)
    /\ p_data' = ParseJsonResponse(p_response)
    /\ p_pc' = "parsed"
    /\ UNCHANGED <<p_input, p_response, p_dests, p_error, notParse>>

\* The rest of generate_destinations (without activities): the loop over the
\* records and the return of the response, or the outer except block.
BuildResponse ==
    /\ p_pc = "parsed"
    /\ IF ListingUsable(p_data)
       THEN /\ p_dests' = BuildDestinations(p_data)
            /\ p_error' = ""
            /\ p_pc' = "returned"
       ELSE /\ p_dests' = <<>>
            /\ p_error' = "DestinationGenerationError"
            /\ p_pc' = "raised"
    /\ UNCHANGED <<p_input, p_response, p_fallback, p_data, notParse>>

\* The answers followed: lines of text, records inside a well-formed
\* {"destinations": [...]}, and other texts.
LineSamples == <<
    <<"O", "s", "l", "o", ",", " ", "N", "o", "r", "w", "a", "y">>,
    <<" ", "L", "i", "m", "a", " ", ",", "P", "e", "r", "u", ",", " ", "S", "o", "u", "t", "h", " ">>,
    <<"R", "o", "m", "e">>,
    <<"\"", "N", "i", "c", "e", "\"", ",", " ", "F", "r", "a", "n", "c", "e">>,
    <<>> >>

RecordSamples == <<
    <<"{", "\"", "p", "l", "a", "c", "e", "\"", ":", " ", "\"", "O", "s", "l", "o", "\"", ",", " ", "\"", "c", "o", "u", "n", "t", "r", "y", "\"", ":", " ", "\"", "N", "o", "r", "w", "a", "y", "\"", "}">>,
    <<"{", "\"", "p", "l", "a", "c", "e", "\"", ":", " ", "\"", "L", "i", "m", "a", "\"", ",", " ", "\"", "c", "o", "u", "n", "t", "r", "y", "\"", ":", " ", "\"", "P", "e", "r", "u", "\"", ",", " ", "\"", "r", "a", "t", "i", "n", "g", "\"", ":", " ", "9", "}">>,
    <<"{", "\"", "c", "o", "u", "n", "t", "r", "y", "\"", ":", " ", "\"", "C", "h", "a", "d", "\"", "}">>,
    <<"{", "\"", "p", "l", "a", "c", "e", "\"", ":", " ", "\"", "\"", ",", " ", "\"", "c", "o", "u", "n", "t", "r", "y", "\"", ":", " ", "\"", "M", "a", "l", "i", "\"", "}">>,
    <<"{", "\"", "p", "l", "a", "c", "e", "\"", ":", " ", "\"", "B", "e", "r", "n", "\"", ",", " ", "\"", "c", "o", "u", "n", "t", "r", "y", "\"", ":", " ", "\"", "C", "H", "\"", ",", " ", "\"", "r", "a", "t", "i", "n", "g", "\"", ":", " ", "4", ",", " ", "\"", "c", "o", "o", "r", "d", "i", "n", "a", "t", "e", "s", "\"", ":", " ", "{", "\"", "l", "a", "t", "\"", ":", " ", "4", "6", ",", " ", "\"", "l", "n", "g", "\"", ":", " ", "7", "}", "}">>,
    <<"7">> >>

OtherTexts == <<
    <<"[", "1", ",", " ", "2", "]">>,
    <<"7">>,
    <<"n", "u", "l", "l">>,
    <<"{", "\"", "d", "e", "s", "t", "i", "n", "a", "t", "i", "o", "n", "s", "\"", ":", " ", "n", "u", "l", "l", "}">>,
    <<"{", "\"", "d", "e", "s", "t", "i", "n", "a", "t", "i", "o", "n", "s", "\"", ":", " ", "3", "}">>,
    <<"{", "}">>,
    <<"\"", "O", "s", "l", "o", ",", " ", "N", "o", "r", "w", "a", "y", "\"">>,
    <<"{", "\"", "d", "e", "s", "t", "i", "n", "a", "t", "i", "o", "n", "s", "\"", ":", " ", "\"", "a", "b", "\"", "}">>,
    <<"{", "\"", "d", "e", "s", "t", "i", "n", "a", "t", "i", "o", "n", "s", "\"", ":", " ", "{", "\"", "a", "\"", ":", " ", "1", "}", "}">>,
    <<"{", "\"", "d", "e", "s", "t", "i", "n", "a", "t", "i", "o", "n", "s", "\"", ":", " ", "[">>,
    <<" ", "{", "\"", "d", "e", "s", "t", "i", "n", "a", "t", "i", "o", "n", "s", "\"", ":", "\n", " ", "[", " ", "]", " ", "}", " ">>,
    <<"0", "1">> >>

RECURSIVE Join(_, _)
Join(pieces, sep) ==
    IF pieces = <<>> THEN <<>>
    ELSE IF Len(pieces) = 1 THEN pieces[1]
    ELSE pieces[1] \o sep \o Join(Tail(pieces), sep)

ParseInputs ==
    {[kind |-> "lines", ids |-> ids] :
        ids \in UNION {[1..n -> 1..Len(LineSamples)] : n \in 0..MaxLines}}
    \cup {[kind |-> "records", ids |-> ids] :
        ids \in UNION {[1..n -> 1..Len(RecordSamples)] : n \in 0..MaxRecs}}
    \cup {[kind |-> "other", ids |-> <<i>>] : i \in 1..Len(OtherTexts)}

TextOf(input) ==
    IF input.kind = "lines"
    THEN Join([i \in 1..Len(input.ids) |-> LineSamples[input.ids[i]]], <<"\n">>)
    ELSE IF input.kind = "records"
    THEN <<"{", "\"", "d", "e", "s", "t", "i", "n", "a", "t", "i", "o", "n", "s", "\"", ":", " ", "[">>
         \o Join([i \in 1..Len(input.ids) |-> RecordSamples[input.ids[i]]], <<",", " ">>)
         \o <<"]", "}">>
    ELSE OtherTexts[input.ids[1]]

\* ------------------------------------------------------ activities of a destination
\* ActivityType, in the order of the enumeration.
ActivityTypes == <<
    <<"O", "u", "t", "d", "o", "o", "r">>, <<"I", "n", "d", "o", "o", "r">>, <<"C", "u", "l", "t", "u", "r", "a", "l">>, <<"A", "d", "v", "e", "n", "t", "u", "r", "e">>, <<"R", "e", "l", "a", "x", "a", "t", "i", "o", "n">>, <<"E", "d", "u", "c", "a", "t", "i", "o", "n", "a", "l">> >>

\* activity_type_mapping: composite type, its target.
ActivityTypeMapping == <<
    <<<<"C", "u", "l", "t", "u", "r", "a", "l", "/", "E", "d", "u", "c", "a", "t", "i", "o", "n", "a", "l">>, <<"C", "u", "l", "t", "u", "r", "a", "l">>>>,
    <<<<"E", "d", "u", "c", "a", "t", "i", "o", "n", "a", "l", "/", "C", "u", "l", "t", "u", "r", "a", "l">>, <<"E", "d", "u", "c", "a", "t", "i", "o", "n", "a", "l">>>>,
    <<<<"O", "u", "t", "d", "o", "o", "r", "/", "A", "d", "v", "e", "n", "t", "u", "r", "e">>, <<"O", "u", "t", "d", "o", "o", "r">>>>,
    <<<<"A", "d", "v", "e", "n", "t", "u", "r", "e", "/", "O", "u", "t", "d", "o", "o", "r">>, <<"A", "d", "v", "e", "n", "t", "u", "r", "e">>>>,
    <<<<"I", "n", "d", "o", "o", "r", "/", "C", "u", "l", "t", "u", "r", "a", "l">>, <<"I", "n", "d", "o", "o", "r">>>>,
    <<<<"C", "u", "l", "t", "u", "r", "a", "l", "/", "I", "n", "d", "o", "o", "r">>, <<"C", "u", "l", "t", "u", "r", "a", "l">>>>,
    <<<<"R", "e", "l", "a", "x", "a", "t", "i", "o", "n", "/", "I", "n", "d", "o", "o", "r">>, <<"R", "e", "l", "a", "x", "a", "t", "i", "o", "n">>>>,
    <<<<"I", "n", "d", "o", "o", "r", "/", "R", "e", "l", "a", "x", "a", "t", "i", "o", "n">>, <<"I", "n", "d", "o", "o", "r">>>> >>

KeyActivities == <<"a", "c", "t", "i", "v", "i", "t", "i", "e", "s">>
KeyName == <<"n", "a", "m", "e">>
KeyActivityType == <<"a", "c", "t", "i", "v", "i", "t", "y", "_", "t", "y", "p", "e">>
KeyDurationHours == <<"d", "u", "r", "a", "t", "i", "o", "n", "_", "h", "o", "u", "r", "s">>
KeyDifficultyLevel == <<"d", "i", "f", "f", "i", "c", "u", "l", "t", "y", "_", "l", "e", "v", "e", "l">>
KeyCostEstimate == <<"c", "o", "s", "t", "_", "e", "s", "t", "i", "m", "a", "t", "e">>

DefaultActivityType == JStr(<<"O", "u", "t", "d", "o", "o", "r">>)
DefaultActivityName == JStr(<<"U", "n", "k", "n", "o", "w", "n", " ", "A", "c", "t", "i", "v", "i", "t", "y">>)

\* `if activity_type_str in activity_type_mapping: activity_type_str = ...`
Mapped(s) ==
    IF \E i \in 1..Len(ActivityTypeMapping) : ActivityTypeMapping[i][1] = s
    THEN ActivityTypeMapping[CHOOSE i \in 1..Len(ActivityTypeMapping) :
                                 ActivityTypeMapping[i][1] = s][2]
    ELSE s

IsActivityType(s) == \E i \in 1..Len(ActivityTypes) : ActivityTypes[i] = s

\* `valid_type.value.lower() in activity_type_str.lower()`
TypeOccursInMutCaseSensitive(type, s) == Contains(s, type)

TypeOccursIn(type, s) == Contains(Lower(s), Lower(type))

\* `for valid_type in ActivityType: ... break / else: ActivityType.OUTDOOR`
FirstTypeIn(s) ==
    IF \E i \in 1..Len(ActivityTypes) : TypeOccursIn(ActivityTypes[i], s)
    THEN ActivityTypes[CHOOSE i \in 1..Len(ActivityTypes) :
                           /\ TypeOccursIn(ActivityTypes[i], s)
                           /\ \A j \in 1..(i - 1) : ~TypeOccursIn(ActivityTypes[j], s)]
    ELSE ActivityTypes[1]

\* The activity type made of a type string.
NormalizeType(s) ==
    IF IsActivityType(Mapped(s)) THEN Mapped(s) ELSE FirstTypeIn(Mapped(s))

\* The normalisation raises for a value that is not a string: TypeError for
\* a list or a dict (unhashable), AttributeError for None, a number or a bool.
TypeNormalizes(v) == v.t = "str"

\* Activity(name=act_info.get("name", "Unknown Activity"), ...) is built:
\* act_info is a dict, its type normalises and every field passes validation.
ActivityValid(act_info) ==
    /\ act_info.t = "obj"
    /\ TypeNormalizes(DictGet(act_info, KeyActivityType, DefaultActivityType))
    /\ RequiredStr(DictGet(act_info, KeyName, DefaultActivityName), 1, 200)
    /\ OptionalStr(DictGet(act_info, KeyDescription, JNull), 1000)
    /\ OptionalNumber(DictGet(act_info, KeyDurationHours, JNull), 0, 168)
    /\ OptionalNumber(DictGet(act_info, KeyDifficultyLevel, JNull), 1, 5)
    /\ DictGet(act_info, KeyCostEstimate, JNull).t \in {"null", "str"}

BuildActivity(act_info) ==
    [name |-> DictGet(act_info, KeyName, DefaultActivityName).s,
     activity_type |->
         NormalizeType(DictGet(act_info, KeyActivityType, DefaultActivityType).s)]

NoActivity == [name |-> <<>>, activity_type |-> <<>>]

\* `except Exception ... continue` inside the loop: the list built so far
\* is kept.
AfterBadActivityMutReset(activities) == <<>>

AfterBadActivity(activities) == activities

\* activity_data.get("activities", []) and the start of the loop raise nothing.
ActivitiesUsable(data) ==
    data.t = "obj" /\ Iterable(DictGet(data, KeyActivities, JList(<<>>)))

\* From the parsed answer to the loop, or to `return []` of the outer except.
EnterActivityLoop ==
    /\ a_pc = "parsed"
    /\ IF ActivitiesUsable(a_data)
       THEN /\ a_todo' = IterItems(DictGet(a_data, KeyActivities, JList(<<>>)))
            /\ a_pc' = "loop"
       ELSE /\ a_todo' = <<>>
            /\ a_pc' = "returned"
    /\ UNCHANGED <<a_input, a_data, a_log, a_activities, notAct>>

\* One turn of `for act_info in activity_data.get("activities", [])`.
ProcessActivity ==
    /\ a_pc = "loop"
    /\ a_todo # <<>>
    /\ LET act_info == Head(a_todo) IN
        IF ActivityValid(act_info)
        THEN /\ a_activities' = Append(a_activities, BuildActivity(act_info))
             /\ a_log' = Append(a_log, [built |-> TRUE, activity |-> BuildActivity(act_info)])
        ELSE /\ a_activities' = AfterBadActivity(a_activities)
             /\ a_log' = Append(a_log, [built |-> FALSE, activity |-> NoActivity])
    /\ a_todo' = Tail(a_todo)
    /\ UNCHANGED <<a_pc, a_input, a_data, notAct>>

\* `return activities`
ReturnActivities ==
    /\ a_pc = "loop"
    /\ a_todo = <<>>
    /\ a_pc' = "returned"
    /\ UNCHANGED <<a_input, a_data, a_todo, a_log, a_activities, notAct>>

\* The activity records followed, inside a well-formed {"activities": [...]}.
ActivitySamples == <<
    <<"{", "\"", "n", "a", "m", "e", "\"", ":", " ", "\"", "M", "u", "s", "e", "u", "m", "\"", ",", " ", "\"", "a", "c", "t", "i", "v", "i", "t", "y", "_", "t", "y", "p", "e", "\"", ":", " ", "\"", "C", "u", "l", "t", "u", "r", "a", "l", "/", "E", "d", "u", "c", "a", "t", "i", "o", "n", "a", "l", "\"", "}">>,
    <<"{", "\"", "n", "a", "m", "e", "\"", ":", " ", "\"", "D", "i", "v", "e", "\"", ",", " ", "\"", "a", "c", "t", "i", "v", "i", "t", "y", "_", "t", "y", "p", "e", "\"", ":", " ", "\"", "U", "n", "d", "e", "r", "w", "a", "t", "e", "r", " ", "B", "a", "s", "k", "e", "t", "r", "y", "\"", "}">>,
    <<"{", "\"", "n", "a", "m", "e", "\"", ":", " ", "\"", "S", "p", "a", "\"", ",", " ", "\"", "a", "c", "t", "i", "v", "i", "t", "y", "_", "t", "y", "p", "e", "\"", ":", " ", "\"", "i", "n", "d", "o", "o", "r", " ", "f", "u", "n", "\"", "}">>,
    <<"{", "\"", "n", "a", "m", "e", "\"", ":", " ", "\"", "T", "o", "u", "r", "\"", ",", " ", "\"", "a", "c", "t", "i", "v", "i", "t", "y", "_", "t", "y", "p", "e", "\"", ":", " ", "\"", "E", "d", "u", "c", "a", "t", "i", "o", "n", "a", "l", "\"", ",", " ", "\"", "d", "u", "r", "a", "t", "i", "o", "n", "_", "h", "o", "u", "r", "s", "\"", ":", " ", "2", ",", " ", "\"", "d", "i", "f", "f", "i", "c", "u", "l", "t", "y", "_", "l", "e", "v", "e", "l", "\"", ":", " ", "3", "}">>,
    <<"{", "\"", "a", "c", "t", "i", "v", "i", "t", "y", "_", "t", "y", "p", "e", "\"", ":", " ", "\"", "I", "n", "d", "o", "o", "r", "\"", "}">>,
    <<"{", "\"", "n", "a", "m", "e", "\"", ":", " ", "\"", "\"", ",", " ", "\"", "a", "c", "t", "i", "v", "i", "t", "y", "_", "t", "y", "p", "e", "\"", ":", " ", "\"", "I", "n", "d", "o", "o", "r", "\"", "}">>,
    <<"{", "\"", "n", "a", "m", "e", "\"", ":", " ", "\"", "C", "l", "i", "m", "b", "\"", ",", " ", "\"", "a", "c", "t", "i", "v", "i", "t", "y", "_", "t", "y", "p", "e", "\"", ":", " ", "n", "u", "l", "l", "}">>,
    <<"{", "\"", "n", "a", "m", "e", "\"", ":", " ", "\"", "W", "a", "l", "k", "\"", ",", " ", "\"", "d", "u", "r", "a", "t", "i", "o", "n", "_", "h", "o", "u", "r", "s", "\"", ":", " ", "2", "0", "0", "}">>,
    <<"{", "\"", "n", "a", "m", "e", "\"", ":", " ", "\"", "S", "k", "i", "\"", ",", " ", "\"", "d", "i", "f", "f", "i", "c", "u", "l", "t", "y", "_", "l", "e", "v", "e", "l", "\"", ":", " ", "9", ",", " ", "\"", "a", "c", "t", "i", "v", "i", "t", "y", "_", "t", "y", "p", "e", "\"", ":", " ", "\"", "A", "d", "v", "e", "n", "t", "u", "r", "e", "\"", "}">> >>

ActivityInputs ==
    UNION {[1..n -> 1..Len(ActivitySamples)] : n \in 0..MaxActs}

\* Well-formed answers of other shapes.
OtherActivityTexts == {
    <<"{", "\"", "a", "c", "t", "i", "v", "i", "t", "i", "e", "s", "\"", ":", " ", "n", "u", "l", "l", "}">>,
    <<"{", "\"", "a", "c", "t", "i", "v", "i", "t", "i", "e", "s", "\"", ":", " ", "4", "}">>,
    <<"{", "}">>,
    <<"[", "1", "]">>,
    <<"n", "u", "l", "l">> }

ActivityTextOf(ids) ==
    <<"{", "\"", "a", "c", "t", "i", "v", "i", "t", "i", "e", "s", "\"", ":", " ", "[">>
    \o Join([i \in 1..Len(ids) |-> ActivitySamples[ids[i]]], <<",", " ">>)
    \o <<"]", "}">>


\* ------------------------------------------- fallback parsing of an activity answer
\* `for line in lines[:20]`
ActivityLineLimit == 20

\* `if len(activities) >= 5: break`
ActivityLimit == 5

\* str.lstrip(chars)
RECURSIVE LStripChars(_, _)
LStripChars(s, chars) ==
    IF s # <<>> /\ Head(s) \in chars THEN LStripChars(Tail(s), chars) ELSE s

\* str.rstrip(chars)
RECURSIVE RStripChars(_, _)
RStripChars(s, chars) ==
    IF s # <<>> /\ s[Len(s)] \in chars
    THEN RStripChars(SubSeq(s, 1, Len(s) - 1), chars) ELSE s

\* str.strip(chars)
StripChars(s, chars) == RStripChars(LStripChars(s, chars), chars)

\* line.strip().lstrip('- ')
ActivityLine(line) == LStripChars(Strip(line), {"-", " "})

\* [line.strip().lstrip('- ') for line in response.split('\n') if line.strip()]
ActivityLines(text) ==
    Map(ActivityLine, SelectSeq(Split(text, "\n"), LAMBDA l : Strip(l) # <<>>))

\* The JSON syntax a line is skipped for.
SkipTokens == {
    <<"{">>, <<"}">>, <<"\"", "a", "c", "t", "i", "v", "i", "t", "i", "e", "s", "\"", ":">>, <<"\"", "n", "a", "m", "e", "\"", ":">>, <<"\"", "d", "e", "s", "c", "r", "i", "p", "t", "i", "o", "n", "\"", ":">>,
    <<"\"", "a", "c", "t", "i", "v", "i", "t", "y", "_", "t", "y", "p", "e", "\"", ":">>, <<"\"", "d", "u", "r", "a", "t", "i", "o", "n", "_", "h", "o", "u", "r", "s", "\"", ":">>, <<"\"", "d", "i", "f", "f", "i", "c", "u", "l", "t", "y", "_", "l", "e", "v", "e", "l", "\"", ":">>,
    <<"\"", "c", "o", "s", "t", "_", "e", "s", "t", "i", "m", "a", "t", "e", "\"", ":">>, <<"[">>, <<"]">> }

\* `any(skip in line for skip in [...])`
HasSkipToken(line) == \E skip \in SkipTokens : Contains(line, skip)

HasChar(line, c) == FirstIndex(line, c) # 0

\* line.strip('"').strip(',').strip()
QuotedName(line) == Strip(StripChars(StripChars(line, {"\""}), {","}))

\* The name an activity is made of for one line, <<>> when none is made.
LineActivityNameMutShort(line) ==
    IF HasSkipToken(line) THEN <<>>
    ELSE IF HasChar(line, "\"") /\ ~HasChar(line, ":")
         THEN IF Len(QuotedName(line)) > 2 THEN QuotedName(line) ELSE <<>>
    ELSE IF ~HasChar(line, ":") THEN line
    ELSE <<>>

LineActivityName(line) ==
    IF HasSkipToken(line) THEN <<>>
    ELSE IF HasChar(line, "\"") /\ ~HasChar(line, ":")
         THEN IF Len(QuotedName(line)) > 2 THEN QuotedName(line) ELSE <<>>
    ELSE IF Len(line) > 3 /\ ~StartsWith(line, "\"") /\ ~HasChar(line, ":") THEN line
    ELSE <<>>

ActivityKeys ==
    <<KeyName, KeyDescription, KeyActivityType, KeyDurationHours, KeyDifficultyLevel,
      KeyCostEstimate>>

\* The activity made of a name.
FallbackActivity(name) ==
    JObj(ActivityKeys,
         <<JStr(name),
           JStr(<<"E", "n", "j", "o", "y", " ">> \o Lower(name) \o <<" ", "a", "t", " ", "t", "h", "i", "s", " ", "d", "e", "s", "t", "i", "n", "a", "t", "i", "o", "n">>),
           JStr(<<"O", "u", "t", "d", "o", "o", "r">>), JNum(2), JNum(3), JStr(<<"M", "o", "d", "e", "r", "a", "t", "e">>)>>)

\* The two activities made when no line gave one.
DefaultActivities == <<
    JObj(ActivityKeys,
         <<JStr(<<"E", "x", "p", "l", "o", "r", "e", " ", "t", "h", "e", " ", "a", "r", "e", "a">>),
           JStr(<<"T", "a", "k", "e", " ", "t", "i", "m", "e", " ", "t", "o", " ", "e", "x", "p", "l", "o", "r", "e", " ", "t", "h", "i", "s", " ", "a", "m", "a", "z", "i", "n", "g", " ", "d", "e", "s", "t", "i", "n", "a", "t", "i", "o", "n">>),
           JStr(<<"O", "u", "t", "d", "o", "o", "r">>), JNum(3), JNum(2), JStr(<<"L", "o", "w">>)>>),
    JObj(ActivityKeys,
         <<JStr(<<"L", "o", "c", "a", "l", " ", "s", "i", "g", "h", "t", "s", "e", "e", "i", "n", "g">>),
           JStr(<<"D", "i", "s", "c", "o", "v", "e", "r", " ", "t", "h", "e", " ", "l", "o", "c", "a", "l", " ", "a", "t", "t", "r", "a", "c", "t", "i", "o", "n", "s", " ", "a", "n", "d", " ", "l", "a", "n", "d", "m", "a", "r", "k", "s">>),
           JStr(<<"C", "u", "l", "t", "u", "r", "a", "l">>), JNum(4), JNum(1), JStr(<<"M", "o", "d", "e", "r", "a", "t", "e">>)>>) >>

\* The loop over lines[:20], left when five activities are made.
RECURSIVE ExtractActivities(_, _)
ExtractActivities(lines, activities) ==
    IF lines = <<>> THEN activities
    ELSE LET name == LineActivityName(Head(lines))
             made == IF name = <<>> THEN activities
                     ELSE Append(activities, FallbackActivity(name))
         IN IF Len(made) >= ActivityLimit THEN made
            ELSE ExtractActivities(Tail(lines), made)

\* _fallback_parse(response, context) without "destination" in context.lower()
FallbackParseActivities(text) ==
    LET activities == ExtractActivities(Take(ActivityLines(text), ActivityLineLimit), <<>>)
    IN JObj(<<KeyActivities>>,
            <<JList(IF activities = <<>> THEN DefaultActivities ELSE activities)>>)

\* _parse_json_response(response_text, "activity generation"): json.loads.
ParseActivityResponse ==
    /\ f_pc = "start"
    /\ IF UsesFallback(f_response)
       THEN /\ f_pc' = "fallback"
            /\ f_fallback' = TRUE
            /\ UNCHANGED f_data
       ELSE /\ f_pc' = "done"
            /\ f_data' = JsonLoads(f_response).v
            /\ UNCHANGED f_fallback
    /\ UNCHANGED <<f_input, f_response, notFb>>

\* `except json.JSONDecodeError: return self._fallback_parse(response, context)`
FallbackParseActivityResponse ==
    /\ f_pc = "fallback"
    /\ f_data' = FallbackParseActivities(f_response)
    /\ f_pc' = "done"
    /\ UNCHANGED <<f_input, f_response, f_fallback, notFb>>

\* The lines followed.
ActivityLineSamples == <<
    <<"S", "w", "i", "m", "m", "i", "n", "g">>,
    <<"\"", "n", "a", "m", "e", "\"", ":", " ", "\"", "S", "u", "r", "f", "\"", ",">>,
    <<"S", "k", "i">>,
    <<"T", "i", "p", ":", " ", "d", "i", "v", "e">>,
    <<"-", " ", "\"", "S", "a", "i", "l", "i", "n", "g", "\"">> >>

\* Lines of the samples, alone or after twenty lines of JSON syntax.
ActivityLineInputs ==
    {[pad |-> 0, ids |-> ids] :
        ids \in UNION {[1..n -> 1..Len(ActivityLineSamples)] : n \in 0..MaxActLines}}
    \cup {[pad |-> ActivityLineLimit, ids |-> <<id>>] : id \in 1..Len(ActivityLineSamples)}

FallbackTextOf(in) ==
    Join([i \in 1..in.pad |-> <<"{">>]
         \o [i \in 1..Len(in.ids) |-> ActivityLineSamples[in.ids[i]]], <<"\n">>)

\* --------------------------------------------- the fields of what a response carries
\* The Activity made of a record, with the fields that have bounds.
ResponseActivity(act_info) ==
    [name |-> BuildActivity(act_info).name,
     activity_type |-> BuildActivity(act_info).activity_type,
     duration_hours |-> DictGet(act_info, KeyDurationHours, JNull),
     difficulty_level |-> DictGet(act_info, KeyDifficultyLevel, JNull)]

\* What _generate_activities_for_destination returns for a parsed answer.
ResponseActivities(data) ==
    IF ActivitiesUsable(data)
    THEN Map(ResponseActivity,
             SelectSeq(IterItems(DictGet(data, KeyActivities, JList(<<>>))), ActivityValid))
    ELSE <<>>

\* The Destination made of a record, with the fields that have bounds.
ResponseDestination(dest_info, activities) ==
    [place |-> BuildDestination(dest_info).place,
     country |-> BuildDestination(dest_info).country,
     coordinates |-> DictGet(dest_info, KeyCoordinates, JNull),
     rating |-> DictGet(dest_info, KeyRating, JNull),
     activities |-> activities]

\* Destination records at and beyond the bounds of coordinates and rating.
BoundRecordSamples == <<
    <<"{", "\"", "p", "l", "a", "c", "e", "\"", ":", " ", "\"", "P", "1", "\"", ",", " ", "\"", "c", "o", "u", "n", "t", "r", "y", "\"", ":", " ", "\"", "C", "\"", "}">>,
    <<"{", "\"", "p", "l", "a", "c", "e", "\"", ":", " ", "\"", "P", "2", "\"", ",", " ", "\"", "c", "o", "u", "n", "t", "r", "y", "\"", ":", " ", "\"", "C", "\"", ",", " ", "\"", "c", "o", "o", "r", "d", "i", "n", "a", "t", "e", "s", "\"", ":", " ", "{", "\"", "l", "a", "t", "\"", ":", " ", "9", "0", ",", " ", "\"", "l", "n", "g", "\"", ":", " ", "-", "1", "8", "0", "}", ",", " ", "\"", "r", "a", "t", "i", "n", "g", "\"", ":", " ", "5", "}">>,
    <<"{", "\"", "p", "l", "a", "c", "e", "\"", ":", " ", "\"", "P", "3", "\"", ",", " ", "\"", "c", "o", "u", "n", "t", "r", "y", "\"", ":", " ", "\"", "C", "\"", ",", " ", "\"", "c", "o", "o", "r", "d", "i", "n", "a", "t", "e", "s", "\"", ":", " ", "{", "\"", "l", "a", "t", "\"", ":", " ", "-", "9", "0", ",", " ", "\"", "l", "n", "g", "\"", ":", " ", "1", "8", "0", "}", ",", " ", "\"", "r", "a", "t", "i", "n", "g", "\"", ":", " ", "0", "}">>,
    <<"{", "\"", "p", "l", "a", "c", "e", "\"", ":", " ", "\"", "P", "4", "\"", ",", " ", "\"", "c", "o", "u", "n", "t", "r", "y", "\"", ":", " ", "\"", "C", "\"", ",", " ", "\"", "c", "o", "o", "r", "d", "i", "n", "a", "t", "e", "s", "\"", ":", " ", "{", "\"", "l", "a", "t", "\"", ":", " ", "9", "1", ",", " ", "\"", "l", "n", "g", "\"", ":", " ", "0", "}", "}">>,
    <<"{", "\"", "p", "l", "a", "c", "e", "\"", ":", " ", "\"", "P", "5", "\"", ",", " ", "\"", "c", "o", "u", "n", "t", "r", "y", "\"", ":", " ", "\"", "C", "\"", ",", " ", "\"", "c", "o", "o", "r", "d", "i", "n", "a", "t", "e", "s", "\"", ":", " ", "{", "\"", "l", "a", "t", "\"", ":", " ", "-", "9", "1", ",", " ", "\"", "l", "n", "g", "\"", ":", " ", "0", "}", "}">>,
    <<"{", "\"", "p", "l", "a", "c", "e", "\"", ":", " ", "\"", "P", "6", "\"", ",", " ", "\"", "c", "o", "u", "n", "t", "r", "y", "\"", ":", " ", "\"", "C", "\"", ",", " ", "\"", "c", "o", "o", "r", "d", "i", "n", "a", "t", "e", "s", "\"", ":", " ", "{", "\"", "l", "a", "t", "\"", ":", " ", "0", ",", " ", "\"", "l", "n", "g", "\"", ":", " ", "1", "8", "1", "}", "}">>,
    <<"{", "\"", "p", "l", "a", "c", "e", "\"", ":", " ", "\"", "P", "7", "\"", ",", " ", "\"", "c", "o", "u", "n", "t", "r", "y", "\"", ":", " ", "\"", "C", "\"", ",", " ", "\"", "c", "o", "o", "r", "d", "i", "n", "a", "t", "e", "s", "\"", ":", " ", "{", "\"", "l", "a", "t", "\"", ":", " ", "0", ",", " ", "\"", "l", "n", "g", "\"", ":", " ", "-", "1", "8", "1", "}", "}">>,
    <<"{", "\"", "p", "l", "a", "c", "e", "\"", ":", " ", "\"", "P", "8", "\"", ",", " ", "\"", "c", "o", "u", "n", "t", "r", "y", "\"", ":", " ", "\"", "C", "\"", ",", " ", "\"", "r", "a", "t", "i", "n", "g", "\"", ":", " ", "6", "}">>,
    <<"{", "\"", "p", "l", "a", "c", "e", "\"", ":", " ", "\"", "P", "9", "\"", ",", " ", "\"", "c", "o", "u", "n", "t", "r", "y", "\"", ":", " ", "\"", "C", "\"", ",", " ", "\"", "r", "a", "t", "i", "n", "g", "\"", ":", " ", "-", "1", "}">> >>

\* Activity records at and beyond the bounds of duration and difficulty.
BoundActivitySamples == <<
    <<"{", "\"", "n", "a", "m", "e", "\"", ":", " ", "\"", "A", "1", "\"", "}">>,
    <<"{", "\"", "n", "a", "m", "e", "\"", ":", " ", "\"", "A", "2", "\"", ",", " ", "\"", "d", "u", "r", "a", "t", "i", "o", "n", "_", "h", "o", "u", "r", "s", "\"", ":", " ", "0", ",", " ", "\"", "d", "i", "f", "f", "i", "c", "u", "l", "t", "y", "_", "l", "e", "v", "e", "l", "\"", ":", " ", "1", "}">>,
    <<"{", "\"", "n", "a", "m", "e", "\"", ":", " ", "\"", "A", "3", "\"", ",", " ", "\"", "d", "u", "r", "a", "t", "i", "o", "n", "_", "h", "o", "u", "r", "s", "\"", ":", " ", "1", "6", "8", ",", " ", "\"", "d", "i", "f", "f", "i", "c", "u", "l", "t", "y", "_", "l", "e", "v", "e", "l", "\"", ":", " ", "5", "}">>,
    <<"{", "\"", "n", "a", "m", "e", "\"", ":", " ", "\"", "A", "4", "\"", ",", " ", "\"", "d", "u", "r", "a", "t", "i", "o", "n", "_", "h", "o", "u", "r", "s", "\"", ":", " ", "1", "6", "9", "}">>,
    <<"{", "\"", "n", "a", "m", "e", "\"", ":", " ", "\"", "A", "5", "\"", ",", " ", "\"", "d", "u", "r", "a", "t", "i", "o", "n", "_", "h", "o", "u", "r", "s", "\"", ":", " ", "-", "1", "}">>,
    <<"{", "\"", "n", "a", "m", "e", "\"", ":", " ", "\"", "A", "6", "\"", ",", " ", "\"", "d", "i", "f", "f", "i", "c", "u", "l", "t", "y", "_", "l", "e", "v", "e", "l", "\"", ":", " ", "0", "}">>,
    <<"{", "\"", "n", "a", "m", "e", "\"", ":", " ", "\"", "A", "7", "\"", ",", " ", "\"", "d", "i", "f", "f", "i", "c", "u", "l", "t", "y", "_", "l", "e", "v", "e", "l", "\"", ":", " ", "6", "}">> >>

\* The activity answers followed, as the records they hold.
BoundAnswers == << <<>>, <<1, 2>>, <<3, 4>>, <<5, 6>>, <<7, 3>> >>

\* json.loads of a destination record.
BoundRecordData == [i \in 1..Len(BoundRecordSamples) |-> JsonLoads(BoundRecordSamples[i]).v]

\* json.loads of an activity answer; answer 0 is a call that raised.
BoundAnswerText(k) ==
    <<"{", "\"", "a", "c", "t", "i", "v", "i", "t", "i", "e", "s", "\"", ":", " ", "[">>
    \o Join([i \in 1..Len(BoundAnswers[k]) |-> BoundActivitySamples[BoundAnswers[k][i]]],
            <<",", " ">>)
    \o <<"]", "}">>

BoundAnswerData == [k \in 1..Len(BoundAnswers) |-> JsonLoads(BoundAnswerText(k)).v]

\* One turn of `for dest_info in destination_data.get("destinations", [])`
\* with the fields kept: the Destination is built, its activities are
\* generated when asked for, and it is appended; a record that fails is
\* skipped.
AppendDestination ==
    /\ r_pc = "loop"
    /\ Len(r_log) < MaxRespRecs
    /\ \E rec \in 1..Len(BoundRecordSamples), ans \in 0..Len(BoundAnswers) :
         LET dest_info == BoundRecordData[rec]
             activities == IF r_include /\ ans > 0
                           THEN ResponseActivities(BoundAnswerData[ans])
                           ELSE <<>>
         IN /\ r_include \/ ans = 0
            /\ DestinationValid(dest_info) \/ ans = 0
            /\ r_log' = Append(r_log, [rec |-> rec, ans |-> ans])
            /\ r_dests' = IF DestinationValid(dest_info)
                          THEN Append(r_dests, ResponseDestination(dest_info, activities))
                          ELSE r_dests
    /\ UNCHANGED <<r_pc, r_include, notResp>>

\* response = GenerationResponse(destinations=destinations, ...); return response
ReturnDestinations ==
    /\ r_pc = "loop"
    /\ r_pc' = "returned"
    /\ UNCHANGED <<r_include, r_log, r_dests, notResp>>

\* ------------------------------------------------------ monitor_fine_tuning_job
\* `wait_time = 30 if status == "running" else 60`
RunningWait == 30
PendingWait == 60

\* `time.sleep(30)` after a status that is not known
UnknownWait == 30

\* `time.sleep(60)` after an error
ErrorWait == 60

\* The key is absent from the dict, or the attribute from the record.
Absent == "-"

NoResult == [status |-> Absent, model_id |-> Absent, error |-> Absent]

\* `elif status in ["validating_files", "queued", "running"]`
InProgress == {"validating_files", "queued", "running"}

TerminalMutNoSucceeded == {"failed", "cancelled"}

Terminal == {"succeeded", "failed", "cancelled"}

\* What client.fine_tuning.jobs.retrieve(job_id) can give: the record of the
\* job, or an exception ("raise"). "paused" is a status the monitor does not
\* know.
PollOutcomes ==
    {[status |-> st, fine_tuned_model |-> Absent, error |-> Absent] :
        st \in InProgress \cup {"paused", "raise"}}
    \cup {[status |-> "succeeded", fine_tuned_model |-> md, error |-> Absent] :
            md \in {"ft:a", "ft:b"}}
    \cup {[status |-> "failed", fine_tuned_model |-> Absent, error |-> "invalid file"],
          [status |-> "cancelled", fine_tuned_model |-> Absent, error |-> "by user"]}

\* max_wait_time as the caller gives it.
WaitBudgets == {k * 30 : k \in 0..MaxWaitSteps}

\* More polls than any call can issue: every poll but the last is followed by
\* a sleep of 30 seconds or more, and none is issued past the largest budget.
MaxPolls == MaxWaitSteps + 2

\* `if elapsed_time > max_wait_time`
BudgetExceededMutNever(elapsed, max_wait) == FALSE

BudgetExceededMutAlways(elapsed, max_wait) == TRUE

BudgetExceededMutAtLimit(elapsed, max_wait) == elapsed >= max_wait

BudgetExceeded(elapsed, max_wait) == elapsed > max_wait

\* The dict returned for a record with a terminal status.
TerminalResult(job) ==
    IF job.status = "succeeded"
    THEN [status |-> "completed", model_id |-> job.fine_tuned_model, error |-> Absent]
    ELSE IF job.status = "failed"
    THEN [status |-> "failed", model_id |-> Absent, error |-> job.error]
    ELSE [status |-> "cancelled", model_id |-> Absent, error |-> Absent]

\* The sleep after a record whose status is not terminal.
WaitTimeOfMutNoSleep(status) == 0

WaitTimeOf(status) ==
    IF status = "running" THEN RunningWait
    ELSE IF status \in InProgress THEN PendingWait
    ELSE UnknownWait

\* Top of `while True`: the budget is checked before the poll.
CheckBudget ==
    /\ m_pc = "top"
    /\ IF BudgetExceeded(m_now, m_max_wait)
       THEN /\ m_result' = [status |-> "timeout", model_id |-> Absent,
                            error |-> "Monitoring timeout"]
            /\ m_pc' = "returned"
       ELSE /\ m_pc' = "poll"
            /\ UNCHANGED m_result
    /\ UNCHANGED <<m_max_wait, m_now, m_polls, m_wait, m_sleeps, m_saves, notMon>>

\* job = self.client.fine_tuning.jobs.retrieve(job_id) and the branch taken
\* on job.status.
PollStatus ==
    /\ m_pc = "poll"
    /\ Len(m_polls) < MaxPolls
    /\ \E job \in PollOutcomes :
         /\ m_polls' = Append(m_polls, [job |-> job, at |-> m_now])
         /\ IF job.status = "raise"
            THEN /\ m_pc' = "error_sleep"
                 /\ UNCHANGED <<m_wait, m_saves, m_result>>
            ELSE IF job.status \in Terminal
            THEN /\ m_result' = TerminalResult(job)
                 /\ m_saves' = IF job.status = "succeeded"
                               THEN Append(m_saves, job.fine_tuned_model)
                               ELSE m_saves
                 /\ m_pc' = "returned"
                 /\ UNCHANGED m_wait
            ELSE /\ m_wait' = WaitTimeOf(job.status)
                 /\ m_pc' = "sleep"
                 /\ UNCHANGED <<m_saves, m_result>>
    /\ UNCHANGED <<m_max_wait, m_now, m_sleeps, notMon>>

\* time.sleep(wait_time), then the next turn of the loop.
SleepThenLoop ==
    /\ m_pc = "sleep"
    /\ m_now' = m_now + m_wait
    /\ m_sleeps' = Append(m_sleeps, Len(m_polls))
    /\ m_pc' = "top"
    /\ UNCHANGED <<m_max_wait, m_polls, m_wait, m_saves, m_result, notMon>>

\* `except Exception`: time.sleep(60), then the budget is checked again.
SleepAfterError ==
    /\ m_pc = "error_sleep"
    /\ m_now' = m_now + ErrorWait
    /\ m_sleeps' = Append(m_sleeps, Len(m_polls))
    /\ IF BudgetExceeded(m_now + ErrorWait, m_max_wait)
       THEN /\ m_result' = [status |-> "monitoring_failed", model_id |-> Absent,
                            error |-> "Monitoring failed"]
            /\ m_pc' = "returned"
       ELSE /\ m_pc' = "top"
            /\ UNCHANGED m_result
    /\ UNCHANGED <<m_max_wait, m_polls, m_wait, m_saves, notMon>>

\* ------------------------------------------------------------- _save_model_info
\* The jobs that reach succeeded.
Jobs == 1..MaxJobs

\* datetime.now().strftime("%Y%m%d_%H%M%S"): one name per second.
Stamps == 0..MaxClock

NoFile == [job |-> 0, model_id |-> Absent, whole |-> FALSE]

\* model_info as json.dump writes it.
ModelInfo(job) == [job |-> job, model_id |-> "ft", whole |-> TRUE]

\* What open(model_file, 'w') and json.dump leave in the file: the info, the
\* file as it was when open raises, a file cut short when json.dump raises.
FileAfterSave(file, job, outcome) ==
    IF outcome = "written" THEN ModelInfo(job)
    ELSE IF outcome = "open raised" THEN file
    ELSE [ModelInfo(job) EXCEPT !.whole = FALSE]

\* _save_model_info(job_id, model_id, job), called by a monitor that sees
\* the job succeeded; an exception of the write is logged, not raised.
SaveModelInfo ==
    /\ Len(art_saves) < MaxSaves
    /\ \E job \in Jobs, outcome \in {"written", "open raised", "dump raised"} :
         /\ art_files' = [art_files EXCEPT
                            ![art_clock] = FileAfterSave(art_files[art_clock], job, outcome)]
         /\ art_saves' = Append(art_saves,
                                [job |-> job, at |-> art_clock, outcome |-> outcome])
    /\ UNCHANGED <<art_clock, notArt>>

\* A second goes by.
ClockAdvances ==
    /\ art_clock < MaxClock
    /\ art_clock' = art_clock + 1
    /\ UNCHANGED <<art_files, art_saves, notArt>>

\* -------------------------------------------------------- full_fine_tuning_pipeline
PipelineSteps == <<"generate", "upload", "create", "monitor">>

\* What monitor_fine_tuning_job returns.
MonitorResults ==
    {[status |-> "completed", model_id |-> md] : md \in {"ft:a", "ft:b"}}
    \cup {[status |-> st, model_id |-> Absent] :
            st \in {"failed", "cancelled", "timeout", "monitoring_failed"}}

\* `except Exception ... return None`: the steps that follow are not run.
AfterRaiseMutGoesOn(next) == next

AfterRaise(next) == "done"

\* A provider call and whether it returned.
Call(name, ok) == [call |-> name, ok |-> ok]

\* prepare_training_file: open(training_file_path) and, when the file
\* opens, one files.create.
UploadOutcomes == {"open_raised", "create_raised", "uploaded"}

UploadCallsMutRetries(outcome) ==
    IF outcome = "open_raised" THEN <<>>
    ELSE IF outcome = "create_raised"
    THEN <<Call("files.create", FALSE), Call("files.create", FALSE)>>
    ELSE <<Call("files.create", TRUE)>>

UploadCalls(outcome) ==
    IF outcome = "open_raised" THEN <<>>
    ELSE <<Call("files.create", outcome = "uploaded")>>

\* create_fine_tuned_model: files.retrieve, time.sleep(10) when the file
\* is not "processed", then one fine_tuning.jobs.create.
CreateOutcomes ==
    {[retrieve |-> r, processed |-> p, create |-> c] :
        r \in BOOLEAN, p \in BOOLEAN, c \in BOOLEAN}

CreateCalls(o) ==
    IF ~o.retrieve THEN <<Call("files.retrieve", FALSE)>>
    ELSE <<Call("files.retrieve", TRUE)>>
         \o (IF o.processed THEN <<>> ELSE <<Call("time.sleep", TRUE)>>)
         \o <<Call("fine_tuning.jobs.create", o.create)>>

CreateReturns(o) == o.retrieve /\ o.create

\* `if result["status"] == "completed": return model_id  else: return None`
ReturnOfMutOnlyFailedIsNone(result) ==
    IF result.status # "failed" THEN result.model_id ELSE "None"

ReturnOf(result) ==
    IF result.status = "completed" THEN result.model_id ELSE "None"

\* training_file_path = self.generate_training_data()
GenerateTrainingData ==
    /\ pl_pc = "generate"
    /\ pl_steps' = Append(pl_steps, "generate")
    /\ \/ /\ pl_path' \in {"training_1.jsonl", "training_2.jsonl"}
          /\ pl_pc' = "upload"
          /\ UNCHANGED <<pl_failed, pl_return>>
       \/ /\ pl_failed' = "generate"
          /\ pl_return' = "None"
          /\ pl_pc' = AfterRaise("upload")
          /\ UNCHANGED pl_path
    /\ UNCHANGED <<pl_base_model, pl_file_id, pl_job_id, pl_result, pl_calls, notPipe>>

\* training_file_id = self.prepare_training_file(training_file_path)
PrepareTrainingFile ==
    /\ pl_pc = "upload"
    /\ pl_steps' = Append(pl_steps, "upload")
    /\ \E outcome \in UploadOutcomes :
         /\ pl_calls' = pl_calls \o UploadCalls(outcome)
         /\ IF outcome = "uploaded"
            THEN /\ pl_file_id' \in {"file-1", "file-2"}
                 /\ pl_pc' = "create"
                 /\ UNCHANGED <<pl_failed, pl_return>>
            ELSE /\ pl_failed' = IF pl_failed = Absent THEN "upload" ELSE pl_failed
                 /\ pl_return' = "None"
                 /\ pl_pc' = AfterRaise("create")
                 /\ UNCHANGED pl_file_id
    /\ UNCHANGED <<pl_base_model, pl_path, pl_job_id, pl_result, notPipe>>

\* job_id = self.create_fine_tuned_model(training_file_id, base_model)
CreateFineTunedModel ==
    /\ pl_pc = "create"
    /\ pl_steps' = Append(pl_steps, "create")
    /\ \E o \in CreateOutcomes :
         /\ pl_calls' = pl_calls \o CreateCalls(o)
         /\ IF CreateReturns(o)
            THEN /\ pl_job_id' \in {"ftjob-1", "ftjob-2"}
                 /\ pl_pc' = "monitor"
                 /\ UNCHANGED <<pl_failed, pl_return>>
            ELSE /\ pl_failed' = IF pl_failed = Absent THEN "create" ELSE pl_failed
                 /\ pl_return' = "None"
                 /\ pl_pc' = AfterRaise("monitor")
                 /\ UNCHANGED pl_job_id
    /\ UNCHANGED <<pl_base_model, pl_path, pl_file_id, pl_result, notPipe>>

\* result = self.monitor_fine_tuning_job(job_id) and the return.
MonitorAndReturn ==
    /\ pl_pc = "monitor"
    /\ pl_steps' = Append(pl_steps, "monitor")
    /\ \E result \in MonitorResults :
         /\ pl_result' = result.status
         /\ pl_return' = IF pl_failed # Absent THEN "None" ELSE ReturnOf(result)
    /\ pl_pc' = "done"
    /\ UNCHANGED <<pl_base_model, pl_path, pl_file_id, pl_job_id, pl_failed, pl_calls, notPipe>>

\* ------------------------------------------------- langchain_helper.safe_request
\* max_retries = 5 and time.sleep(20) of the legacy helper.
LegacyMaxRetries == 5
LegacySleep == 20

\* What one invocation of request_function does: it returns a response, or
\* raises an HTTPError with a status code, or raises another exception.
LegacyOutcomes ==
    {[kind |-> "ok", status |-> 200, value |-> v] : v \in {"response-1", "response-2"}}
    \cup {[kind |-> "http", status |-> st, value |-> Absent] : st \in {400, 401, 429, 500, 503}}
    \cup {[kind |-> "exc", status |-> 0, value |-> x] : x \in {"ValueError", "Timeout"}}

\* `except HTTPError as e: if e.response.status_code == 429`
RateLimited(o) == o.kind = "http" /\ o.status = 429

\* The name of what is raised for a failing invocation.
RaisedBy(o) == IF o.kind = "http" THEN "HTTPError" ELSE o.value

\* A call safe_request(chain, inputs) starts.
SafeRequestStart ==
    /\ lg_pc \in {"idle", "raised", "used"}
    /\ lg_request' \in {"theme_chain", "activity_chain"}
    /\ lg_pc' = "loop"
    /\ lg_attempt' = 0
    /\ lg_calls' = <<>>
    /\ lg_sleeps' = <<>>
    /\ lg_return' = Absent
    /\ lg_raised' = Absent
    /\ UNCHANGED notLegacy

\* One iteration of `for attempt in range(max_retries)`.
SafeRequestAttempt ==
    /\ lg_pc = "loop"
    /\ lg_attempt < LegacyMaxRetries
    /\ \E o \in LegacyOutcomes :
         /\ lg_calls' = Append(lg_calls, o)
         /\ IF o.kind = "ok"
            THEN /\ lg_return' = o.value
                 /\ lg_pc' = "returned"
                 /\ UNCHANGED <<lg_attempt, lg_sleeps, lg_raised>>
            ELSE IF RateLimited(o)
            THEN /\ lg_sleeps' = Append(lg_sleeps, LegacySleep)
                 /\ lg_attempt' = lg_attempt + 1
                 /\ UNCHANGED <<lg_pc, lg_return, lg_raised>>
            ELSE /\ lg_raised' = RaisedBy(o)
                 /\ lg_pc' = "raised"
                 /\ UNCHANGED <<lg_attempt, lg_sleeps, lg_return>>
    /\ UNCHANGED <<lg_request, notLegacy>>

\* The for loop is over: the function body ends and the call returns None.
SafeRequestLoopEnds ==
    /\ lg_pc = "loop"
    /\ lg_attempt >= LegacyMaxRetries
    /\ lg_return' = "None"
    /\ lg_pc' = "returned"
    /\ UNCHANGED <<lg_request, lg_attempt, lg_calls, lg_sleeps, lg_raised, notLegacy>>

\* The caller subscripts what came back: response['destinations'] or
\* activities_response['activities'].
CallerReadsResponse ==
    /\ lg_pc = "returned"
    /\ lg_pc' = "used"
    /\ lg_raised' = IF lg_return = "None" THEN "TypeError" ELSE lg_raised
    /\ UNCHANGED <<lg_request, lg_attempt, lg_calls, lg_sleeps, lg_return, notLegacy>>

\* ----------------------------------------------------------- initiate_fine_tuning
\* Python truth of an Optional[str]: None and "" are false.
Truthy(x) == x \notin {"None", ""}

\* settings.effective_openai_model
EffectiveOpenaiModel(model, use, id) ==
    IF use /\ Truthy(id) THEN id ELSE model

\* What full_fine_tuning_pipeline hands back to the await: a model id, None,
\* or an exception of run_in_executor.
PipelineOutcomes == {"ft:a", "ft:b", "", "None", "raised"}

\* What self.__init__() does: it runs to its end, or raises while building
\* ChatOpenAI (self.llm is kept), or raises after self.llm was replaced.
ReinitOutcomes == {"ok", "raised before llm", "raised after llm"}

\* initiate_fine_tuning up to the await of the pipeline.
InitiateFineTuning ==
    /\ t_pc \in {"idle", "done"}
    /\ t_base_model' \in {"gpt-3.5-turbo", "gpt-4"}
    /\ t_before' = [id |-> fine_tuned_model_id, use |-> use_fine_tuned_model]
    /\ t_return' = Absent
    /\ t_pc' = "awaiting"
    /\ UNCHANGED <<openai_model, fine_tuned_model_id, use_fine_tuned_model, t_llm_model, notTune>>

\* The pipeline is over: the rest of initiate_fine_tuning, to its return.
PipelineReturned ==
    /\ t_pc = "awaiting"
    /\ \E model_id \in PipelineOutcomes, reinit \in ReinitOutcomes :
         IF model_id # "raised" /\ Truthy(model_id)
         THEN /\ fine_tuned_model_id' = model_id
              /\ use_fine_tuned_model' = TRUE
              /\ t_llm_model' = IF reinit = "raised before llm" THEN t_llm_model
                                ELSE EffectiveOpenaiModel(openai_model, TRUE, model_id)
              /\ t_return' = IF reinit = "ok" THEN model_id ELSE "None"
         ELSE /\ t_return' = "None"
              /\ UNCHANGED <<fine_tuned_model_id, use_fine_tuned_model, t_llm_model>>
    /\ t_pc' = "done"
    /\ UNCHANGED <<openai_model, t_base_model, t_before, notTune>>

\* ------------------------------------------ concurrent calls of the cache manager
\* The generate calls in flight, each inside one CacheManager call at a time.
Procs == 1..MaxProcs

\* The key they share.
SharedKey == CHOOSE k \in Keys : TRUE

\* Responses handed to set: objects of two parts, so that a value made of
\* the parts of two writes can be told from both.
ConcValues == {<<1, 1>>, <<2, 2>>}

NoAnswer == [value |-> NoneVal, success |-> FALSE, raised |-> FALSE]

\* A generate call enters CacheManager.get or CacheManager.set; a disabled
\* manager answers at once (lines 230-231, 250-251).
ConcStart(p) ==
    /\ cc_pc[p] \in {"idle", "done"}
    /\ cc_started < MaxConcCalls
    /\ cc_started' = cc_started + 1
    /\ \E op \in {"get", "set"}, value \in ConcValues :
         /\ cc_op' = [cc_op EXCEPT ![p] = op]
         /\ cc_val' = [cc_val EXCEPT ![p] = IF op = "set" THEN value ELSE NoneVal]
         /\ cc_passed' = IF op = "set" THEN cc_passed \cup {value} ELSE cc_passed
    /\ cc_pc' = [cc_pc EXCEPT ![p] = IF enabled THEN "primary" ELSE "done"]
    /\ cc_result' = [cc_result EXCEPT ![p] = NoAnswer]
    /\ cc_primary_ok' = [cc_primary_ok EXCEPT ![p] = FALSE]
    /\ UNCHANGED <<cc_last_primary, cc_last_durable, cacheVars, notConc>>

\* `await self.primary_backend.get(key)` or `.set(key, value, ttl)`: one
\* command of the redis server.
ConcPrimary(p) ==
    /\ cc_pc[p] = "primary"
    /\ \E redis_fails \in RedisFailures :
         IF cc_op[p] = "set"
         THEN LET po == RedisSetOutcome(redis_fails) IN
              /\ redis_store' = IF po = "ok"
                                THEN RedisWrite(redis_store, SharedKey, cc_val[p])
                                ELSE redis_store
              /\ cc_last_primary' = IF po = "ok" THEN cc_val[p] ELSE cc_last_primary
              /\ cc_primary_ok' = [cc_primary_ok EXCEPT ![p] = po = "ok"]
              /\ cc_result' = [cc_result EXCEPT ![p].raised = Escapes(po)]
              /\ cc_pc' = [cc_pc EXCEPT ![p] = "durable"]
         ELSE LET pv == RedisGet(SharedKey, redis_fails)
                  po == RedisGetOutcome(SharedKey, redis_fails) IN
              /\ cc_result' = [cc_result EXCEPT ![p].value = pv, ![p].raised = Escapes(po)]
              /\ cc_pc' = [cc_pc EXCEPT ![p] =
                              IF PrimaryAnswered(pv, po) THEN "done" ELSE "durable"]
              /\ UNCHANGED <<redis_store, cc_last_primary, cc_primary_ok>>
    /\ UNCHANGED <<cc_op, cc_val, cc_started, cc_passed, cc_last_durable,
                   enable_caching, enabled, redis_available, disk_store, c_last, c_prev,
                   notConc>>

\* `await self.fallback_backend.get(key)` or `.set(key, value, ttl)`: one
\* transaction of diskcache; then the call returns.
ConcDurable(p) ==
    /\ cc_pc[p] = "durable"
    /\ \E disk_fails \in DiskFailures :
         IF cc_op[p] = "set"
         THEN LET do == DiskSetOutcome(disk_fails) IN
              /\ disk_store' = IF do = "ok"
                               THEN DiskWrite(disk_store, SharedKey, cc_val[p])
                               ELSE disk_store
              /\ cc_last_durable' = IF do = "ok" THEN cc_val[p] ELSE cc_last_durable
              /\ cc_result' = [cc_result EXCEPT
                                  ![p].success = SetResult(cc_primary_ok[p], do = "ok"),
                                  ![p].raised = cc_result[p].raised \/ Escapes(do)]
         ELSE /\ cc_result' = [cc_result EXCEPT
                                  ![p].value = DiskGet(SharedKey, disk_fails),
                                  ![p].raised = cc_result[p].raised \/
                                                Escapes(DiskGetOutcome(SharedKey, disk_fails))]
              /\ UNCHANGED <<disk_store, cc_last_durable>>
    /\ cc_pc' = [cc_pc EXCEPT ![p] = "done"]
    /\ UNCHANGED <<cc_op, cc_val, cc_primary_ok, cc_started, cc_passed, cc_last_primary,
                   enable_caching, enabled, redis_available, redis_store, c_last, c_prev,
                   notConc>>

\* ------------------------------------------------------------ specifications
GenDefaults ==
    /\ g_pc = "idle"
    /\ g_calls = 0
    /\ g_service = 0
    /\ g_request = NoRequest
    /\ g_key = NoKey
    /\ g_held = NoHeld
    /\ g_lookup = NoCall
    /\ g_exec = <<>>
    /\ g_sets = <<>>
    /\ g_records = <<>>
    /\ g_todo = <<>>
    /\ g_dests = <<>>
    /\ g_result = <<>>
    /\ g_error = ""

ParseDefaults ==
    /\ p_pc = "start"
    /\ p_input = [kind |-> "other", ids |-> <<>>]
    /\ p_response = <<>>
    /\ p_fallback = FALSE
    /\ p_data = JNull
    /\ p_dests = <<>>
    /\ p_error = ""

ActDefaults ==
    /\ a_pc = "returned"
    /\ a_input = <<>>
    /\ a_data = JNull
    /\ a_todo = <<>>
    /\ a_log = <<>>
    /\ a_activities = <<>>

FbDefaults ==
    /\ f_pc = "done"
    /\ f_input = [pad |-> 0, ids |-> <<>>]
    /\ f_response = <<>>
    /\ f_fallback = FALSE
    /\ f_data = JNull

RespDefaults ==
    /\ r_pc = "returned"
    /\ r_include = FALSE
    /\ r_log = <<>>
    /\ r_dests = <<>>

MonDefaults ==
    /\ m_pc = "returned"
    /\ m_max_wait = 0
    /\ m_now = 0
    /\ m_polls = <<>>
    /\ m_wait = 0
    /\ m_sleeps = <<>>
    /\ m_saves = <<>>
    /\ m_result = NoResult

ArtDefaults ==
    /\ art_clock = 0
    /\ art_files = [t \in Stamps |-> NoFile]
    /\ art_saves = <<>>

PipeDefaults ==
    /\ pl_pc = "done"
    /\ pl_base_model = Absent
    /\ pl_path = Absent
    /\ pl_file_id = Absent
    /\ pl_job_id = Absent
    /\ pl_steps = <<>>
    /\ pl_failed = Absent
    /\ pl_return = Absent
    /\ pl_result = Absent
    /\ pl_calls = <<>>
    /\ pl_result = Absent
    /\ pl_calls = <<>>

LegacyDefaults ==
    /\ lg_pc = "idle"
    /\ lg_request = Absent
    /\ lg_attempt = 0
    /\ lg_calls = <<>>
    /\ lg_sleeps = <<>>
    /\ lg_return = Absent
    /\ lg_raised = Absent

TuneDefaults ==
    /\ openai_model = "gpt-3.5-turbo"
    /\ fine_tuned_model_id = "None"
    /\ use_fine_tuned_model = FALSE
    /\ t_pc = "idle"
    /\ t_base_model = Absent
    /\ t_before = [id |-> Absent, use |-> FALSE]
    /\ t_llm_model = Absent
    /\ t_return = Absent

ConcDefaults ==
    /\ cc_pc = [p \in Procs |-> "idle"]
    /\ cc_op = [p \in Procs |-> "none"]
    /\ cc_val = [p \in Procs |-> NoneVal]
    /\ cc_primary_ok = [p \in Procs |-> FALSE]
    /\ cc_result = [p \in Procs |-> NoAnswer]
    /\ cc_started = 0
    /\ cc_passed = {}
    /\ cc_last_primary = NoneVal
    /\ cc_last_durable = NoneVal

CacheDefaults ==
    /\ enable_caching = TRUE
    /\ enabled = TRUE
    /\ redis_available = TRUE
    /\ redis_store = [k \in Keys |-> <<>>]
    /\ disk_store = [k \in Keys |-> <<>>]
    /\ c_last = NoCall
    /\ c_prev = NoCall

ExecDefaults ==
    /\ max_retries = 3
    /\ retry_delay = 2
    /\ ex_pc = "idle"
    /\ attempt = 0
    /\ calls = <<>>
    /\ log = <<>>
    /\ sleeps = <<>>
    /\ response = 0
    /\ raised = <<>>

KeyDefaults ==
    /\ k_call1 = [kind |-> "none"]
    /\ k_call2 = [kind |-> "none"]
    /\ k_key1 = NoKey
    /\ k_key2 = NoKey

InitExec ==
    /\ max_retries \in 0..MaxRetries
    /\ retry_delay \in 0..MaxDelay
    /\ ex_pc = "idle"
    /\ attempt = 0
    /\ calls = <<>>
    /\ log = <<>>
    /\ sleeps = <<>>
    /\ response = 0
    /\ raised = <<>>
    /\ CacheDefaults
    /\ KeyDefaults
    /\ GenDefaults
    /\ ParseDefaults
    /\ ActDefaults
    /\ FbDefaults
    /\ RespDefaults
    /\ MonDefaults
    /\ ArtDefaults
    /\ PipeDefaults
    /\ LegacyDefaults
    /\ TuneDefaults
    /\ ConcDefaults

NextExec ==
    \/ SafeApiRequestStart
    \/ AttemptSucceeds
    \/ AttemptFailsRetry
    \/ AttemptFailsExhausted
    \/ LoopFallsThrough

SpecExec == InitExec /\ [][NextExec]_vars

\* The manager is constructed over whatever earlier runs left in the two
\* stores; settings.enable_caching and the redis import decide the two flags.
InitCache ==
    /\ enable_caching \in BOOLEAN
    /\ enabled = enable_caching
    /\ redis_available \in BOOLEAN
    /\ redis_store \in [Keys -> {<<>>} \cup {<<PickleDumps(v)>> : v \in Values}]
    /\ disk_store \in [Keys -> {<<>>} \cup {<<v>> : v \in Values}]
    /\ c_last = NoCall
    /\ c_prev = NoCall
    /\ ExecDefaults
    /\ KeyDefaults
    /\ GenDefaults
    /\ ParseDefaults
    /\ ActDefaults
    /\ FbDefaults
    /\ RespDefaults
    /\ MonDefaults
    /\ ArtDefaults
    /\ PipeDefaults
    /\ LegacyDefaults
    /\ TuneDefaults
    /\ ConcDefaults

NextCache ==
    \/ CacheGet
    \/ CacheSet

SpecCache == InitCache /\ [][NextCache]_vars

InitKey ==
    /\ \/ k_call1 \in DirectCalls /\ k_call2 \in DirectCalls
       \/ k_call1 \in WrapperCalls /\ k_call2 \in WrapperCalls
    /\ k_key1 = NoKey
    /\ k_key2 = NoKey
    /\ ExecDefaults
    /\ CacheDefaults
    /\ GenDefaults
    /\ ParseDefaults
    /\ ActDefaults
    /\ FbDefaults
    /\ RespDefaults
    /\ MonDefaults
    /\ ArtDefaults
    /\ PipeDefaults
    /\ LegacyDefaults
    /\ TuneDefaults
    /\ ConcDefaults

NextKey ==
    \/ DeriveKey1
    \/ DeriveKey2

SpecKey == InitKey /\ [][NextKey]_vars

\* The service starts over empty tiers; settings.enable_caching and the redis
\* import decide the two flags.
InitGen ==
    /\ enable_caching \in BOOLEAN
    /\ enabled = enable_caching
    /\ redis_available \in BOOLEAN
    /\ redis_store = [k \in GenKeys |-> <<>>]
    /\ disk_store = [k \in GenKeys |-> <<>>]
    /\ c_last = NoCall
    /\ c_prev = NoCall
    /\ GenDefaults
    /\ ExecDefaults
    /\ KeyDefaults
    /\ ParseDefaults
    /\ ActDefaults
    /\ FbDefaults
    /\ RespDefaults
    /\ MonDefaults
    /\ ArtDefaults
    /\ PipeDefaults
    /\ LegacyDefaults
    /\ TuneDefaults
    /\ ConcDefaults

NextGen ==
    \/ GenerateDestinationsCall
    \/ ListingCall
    \/ ListingReturns
    \/ ProcessDestination
    \/ ActivityReturns
    \/ GenerateDestinationsReturn

SpecGen == InitGen /\ [][NextGen]_vars

\* One answer of the destination-listing call, not yet parsed.
InitParse ==
    /\ p_input \in ParseInputs
    /\ p_response = TextOf(p_input)
    /\ p_pc = "start"
    /\ p_fallback = FALSE
    /\ p_data = JNull
    /\ p_dests = <<>>
    /\ p_error = ""
    /\ ExecDefaults
    /\ CacheDefaults
    /\ KeyDefaults
    /\ GenDefaults
    /\ ActDefaults
    /\ FbDefaults
    /\ RespDefaults
    /\ MonDefaults
    /\ ArtDefaults
    /\ PipeDefaults
    /\ LegacyDefaults
    /\ TuneDefaults
    /\ ConcDefaults

NextParse ==
    \/ ParseListing
    \/ BuildResponse

SpecParse == InitParse /\ [][NextParse]_vars

\* One activity answer, well-formed JSON, as _parse_json_response gives it.
InitAct ==
    /\ a_input \in ActivityInputs
    /\ \/ a_data = ParseJsonResponse(ActivityTextOf(a_input))
       \/ /\ a_input = <<>>
          /\ \E text \in OtherActivityTexts : a_data = ParseJsonResponse(text)
    /\ a_pc = "parsed"
    /\ a_todo = <<>>
    /\ a_log = <<>>
    /\ a_activities = <<>>
    /\ ExecDefaults
    /\ CacheDefaults
    /\ KeyDefaults
    /\ GenDefaults
    /\ ParseDefaults
    /\ FbDefaults
    /\ RespDefaults
    /\ MonDefaults
    /\ ArtDefaults
    /\ PipeDefaults
    /\ LegacyDefaults
    /\ TuneDefaults
    /\ ConcDefaults

NextAct ==
    \/ EnterActivityLoop
    \/ ProcessActivity
    \/ ReturnActivities

SpecAct == InitAct /\ [][NextAct]_vars

\* One activity answer, not JSON (lines of text) or JSON.
InitFb ==
    /\ f_input \in ActivityLineInputs
    /\ \/ f_response = FallbackTextOf(f_input)
       \/ /\ f_input = [pad |-> 0, ids |-> <<>>]
          /\ f_response \in OtherActivityTexts
    /\ f_pc = "start"
    /\ f_fallback = FALSE
    /\ f_data = JNull
    /\ GenDefaults
    /\ ParseDefaults
    /\ ActDefaults
    /\ CacheDefaults
    /\ ExecDefaults
    /\ KeyDefaults
    /\ RespDefaults
    /\ MonDefaults
    /\ ArtDefaults
    /\ PipeDefaults
    /\ LegacyDefaults
    /\ TuneDefaults
    /\ ConcDefaults

NextFb ==
    \/ ParseActivityResponse
    \/ FallbackParseActivityResponse

SpecFb == InitFb /\ [][NextFb]_vars

\* The loop of generate_destinations about to start.
InitResp ==
    /\ r_include \in BOOLEAN
    /\ r_pc = "loop"
    /\ r_log = <<>>
    /\ r_dests = <<>>
    /\ GenDefaults
    /\ ParseDefaults
    /\ ActDefaults
    /\ FbDefaults
    /\ CacheDefaults
    /\ ExecDefaults
    /\ KeyDefaults
    /\ MonDefaults
    /\ ArtDefaults
    /\ PipeDefaults
    /\ LegacyDefaults
    /\ TuneDefaults
    /\ ConcDefaults

NextResp ==
    \/ AppendDestination
    \/ ReturnDestinations

SpecResp == InitResp /\ [][NextResp]_vars

\* monitor_fine_tuning_job(job_id, max_wait_time) has taken start_time.
InitMon ==
    /\ m_max_wait \in WaitBudgets
    /\ m_pc = "top"
    /\ m_now = 0
    /\ m_polls = <<>>
    /\ m_wait = 0
    /\ m_sleeps = <<>>
    /\ m_saves = <<>>
    /\ m_result = NoResult
    /\ GenDefaults
    /\ ParseDefaults
    /\ ActDefaults
    /\ FbDefaults
    /\ RespDefaults
    /\ CacheDefaults
    /\ ExecDefaults
    /\ KeyDefaults
    /\ ArtDefaults
    /\ PipeDefaults
    /\ LegacyDefaults
    /\ TuneDefaults
    /\ ConcDefaults

NextMon ==
    \/ CheckBudget
    \/ PollStatus
    \/ SleepThenLoop
    \/ SleepAfterError

SpecMon == InitMon /\ [][NextMon]_vars

\* The monitor keeps running: no step of it waits for anything but the sleep
\* it takes itself.
SpecMonLive == SpecMon /\ WF_vars(NextMon)

\* No artifact has been written yet.
InitArt ==
    /\ art_clock = 0
    /\ art_files = [t \in Stamps |-> NoFile]
    /\ art_saves = <<>>
    /\ GenDefaults
    /\ ParseDefaults
    /\ ActDefaults
    /\ FbDefaults
    /\ RespDefaults
    /\ MonDefaults
    /\ PipeDefaults
    /\ CacheDefaults
    /\ ExecDefaults
    /\ KeyDefaults
    /\ LegacyDefaults
    /\ TuneDefaults
    /\ ConcDefaults

NextArt ==
    \/ SaveModelInfo
    \/ ClockAdvances

SpecArt == InitArt /\ [][NextArt]_vars

\* full_fine_tuning_pipeline(base_model) has been called.
InitPipe ==
    /\ pl_base_model \in {"gpt-3.5-turbo", "gpt-4", "gpt-4o-mini"}
    /\ pl_pc = "generate"
    /\ pl_path = Absent
    /\ pl_file_id = Absent
    /\ pl_job_id = Absent
    /\ pl_steps = <<>>
    /\ pl_failed = Absent
    /\ pl_return = Absent
    /\ pl_result = Absent
    /\ pl_calls = <<>>
    /\ GenDefaults
    /\ ParseDefaults
    /\ ActDefaults
    /\ FbDefaults
    /\ RespDefaults
    /\ MonDefaults
    /\ ArtDefaults
    /\ CacheDefaults
    /\ ExecDefaults
    /\ KeyDefaults
    /\ LegacyDefaults
    /\ TuneDefaults
    /\ ConcDefaults

NextPipe ==
    \/ GenerateTrainingData
    \/ PrepareTrainingFile
    \/ CreateFineTunedModel
    \/ MonitorAndReturn

SpecPipe == InitPipe /\ [][NextPipe]_vars

InitLegacy ==
    /\ lg_pc = "idle"
    /\ lg_request = Absent
    /\ lg_attempt = 0
    /\ lg_calls = <<>>
    /\ lg_sleeps = <<>>
    /\ lg_return = Absent
    /\ lg_raised = Absent
    /\ GenDefaults
    /\ ParseDefaults
    /\ ActDefaults
    /\ FbDefaults
    /\ RespDefaults
    /\ MonDefaults
    /\ ArtDefaults
    /\ PipeDefaults
    /\ CacheDefaults
    /\ ExecDefaults
    /\ KeyDefaults
    /\ TuneDefaults
    /\ ConcDefaults

NextLegacy ==
    \/ SafeRequestStart
    \/ SafeRequestAttempt
    \/ SafeRequestLoopEnds
    \/ CallerReadsResponse

SpecLegacy == InitLegacy /\ [][NextLegacy]_vars

\* The service was constructed over the settings of the environment.
InitTune ==
    /\ openai_model \in {"gpt-3.5-turbo", "gpt-4"}
    /\ fine_tuned_model_id \in {"None", "ft:old"}
    /\ use_fine_tuned_model \in BOOLEAN
    /\ t_pc = "idle"
    /\ t_base_model = Absent
    /\ t_before = [id |-> Absent, use |-> FALSE]
    /\ t_llm_model = EffectiveOpenaiModel(openai_model, use_fine_tuned_model, fine_tuned_model_id)
    /\ t_return = Absent
    /\ GenDefaults
    /\ ParseDefaults
    /\ ActDefaults
    /\ FbDefaults
    /\ RespDefaults
    /\ MonDefaults
    /\ ArtDefaults
    /\ PipeDefaults
    /\ LegacyDefaults
    /\ CacheDefaults
    /\ ExecDefaults
    /\ KeyDefaults
    /\ ConcDefaults

NextTune ==
    \/ InitiateFineTuning
    \/ PipelineReturned

SpecTune == InitTune /\ [][NextTune]_vars

\* A fresh cache shared by the generate calls.
InitConc ==
    /\ enable_caching \in BOOLEAN
    /\ enabled = enable_caching
    /\ redis_available \in BOOLEAN
    /\ redis_store = [k \in Keys |-> <<>>]
    /\ disk_store = [k \in Keys |-> <<>>]
    /\ c_last = NoCall
    /\ c_prev = NoCall
    /\ ConcDefaults
    /\ GenDefaults
    /\ ParseDefaults
    /\ ActDefaults
    /\ FbDefaults
    /\ RespDefaults
    /\ MonDefaults
    /\ ArtDefaults
    /\ PipeDefaults
    /\ LegacyDefaults
    /\ TuneDefaults
    /\ ExecDefaults
    /\ KeyDefaults

NextConc ==
    \E p \in Procs :
        \/ ConcStart(p)
        \/ ConcPrimary(p)
        \/ ConcDurable(p)

SpecConc == InitConc /\ [][NextConc]_vars

\* ------------------------------------------------------------ claims C1..C4
Failed(i) == calls[i] # 0
AllFailed == \A i \in 1..Len(calls) : Failed(i)

\* The class of each error text of ErrorTexts, read off the texts by hand.
ExpectedClass == <<"rate_limit", "rate_limit", "api", "api", "generic", "api">>

\* C1: with max_retries = N >= 1 and an operation that fails on every
\* invocation, the operation is invoked exactly N times, never more, and then
\* a DestinationGenerationError is raised exactly once.
C1_ExhaustionAfterExactlyN ==
    (max_retries >= 1 /\ AllFailed) =>
        /\ Len(calls) <= max_retries
        /\ Len(raised) <= 1
        /\ (Len(calls) = max_retries <=> ex_pc = "raised")
        /\ (ex_pc = "raised" => Len(raised) = 1 /\ response = 0)
        /\ (ex_pc = "loop" => Len(calls) = attempt /\ raised = <<>>)

C1_Witness ==
    /\ max_retries = 3
    /\ ex_pc = "raised"
    /\ Len(calls) = 3
    /\ AllFailed
    /\ Len(raised) = 1

\* C2: an operation that fails N-1 times (errors of any class) and then
\* succeeds, N <= max_retries, makes the call return the response of
\* invocation N; nothing is raised and no invocation follows the success.
C2_SuccessOnAttemptN ==
    /\ (ex_pc = "returned" =>
            /\ Len(calls) >= 1
            /\ Len(calls) <= max_retries
            /\ response = Len(calls)
            /\ raised = <<>>)
    /\ \A i \in 1..Len(calls) :
            ~Failed(i) => (i = Len(calls) /\ ex_pc = "returned")
    /\ (\A i \in 1..Len(calls) : Failed(i)) => response = 0

C2_Witness ==
    /\ ex_pc = "returned"
    /\ Len(calls) = 3
    /\ ExpectedClass[calls[1]] = "rate_limit"
    /\ ExpectedClass[calls[2]] = "generic"
    /\ response = 3

\* The delay the claim states for the sleep after the failure of 0-based index i.
ClaimedDelay(i) ==
    IF ExpectedClass[calls[i + 1]] = "rate_limit" THEN retry_delay * (2 ^ i)
    ELSE retry_delay

BothRateLimited(i) ==
    /\ ExpectedClass[calls[i]] = "rate_limit"
    /\ ExpectedClass[calls[i + 1]] = "rate_limit"

\* C3 as stated: the delay after the failed attempt of 0-based index i is
\* retry_delay * 2^i for a rate-limit/quota error and retry_delay otherwise,
\* and so, across consecutive rate-limit failures, the delays are strictly
\* increasing and each is at least twice the one before.
C3_Original_StrictlyIncreasing ==
    /\ \A i \in 0..(Len(sleeps) - 1) : sleeps[i + 1] = ClaimedDelay(i)
    /\ \A i \in 1..(Len(sleeps) - 1) :
            BothRateLimited(i) =>
                /\ sleeps[i + 1] > sleeps[i]
                /\ sleeps[i + 1] >= 2 * sleeps[i]

\* C3 as amended: the same delays; each of two consecutive rate-limit delays
\* is at least twice the one before, and strictly greater when retry_delay > 0.
\* A sleep happens exactly after a failure that is not the last attempt.
C3_BackoffDelays ==
    /\ \A i \in 0..(Len(sleeps) - 1) : sleeps[i + 1] = ClaimedDelay(i)
    /\ \A i \in 1..(Len(sleeps) - 1) :
            BothRateLimited(i) =>
                /\ sleeps[i + 1] >= 2 * sleeps[i]
                /\ (retry_delay > 0 => sleeps[i + 1] > sleeps[i])
    /\ Len(sleeps) <= Len(calls)
    /\ \A i \in 1..Len(calls) :
            (Failed(i) /\ i < max_retries) => i <= Len(sleeps)

C3_Witness ==
    /\ retry_delay = 2
    /\ Len(sleeps) = 3
    /\ BothRateLimited(1)
    /\ BothRateLimited(2)
    /\ sleeps = <<2, 4, 8>>

\* C4: every failure is classified by its lower-cased text (rate limit or
\* quota; else api or authentication; else generic), and on exhaustion the
\* error raised carries the tag of the class of the last attempt's error: the
\* rate-limit message, "API error" with the provider's text, or "Unexpected
\* error" with the provider's text.
C4_ClassificationAndTag ==
    /\ Len(log) = Cardinality({i \in 1..Len(calls) : Failed(i)})
    /\ \A i \in 1..Len(log) : log[i] = ExpectedClass[calls[i]]
    /\ (ex_pc = "raised" /\ Len(calls) >= 1) =>
        LET m == calls[Len(calls)] IN
        /\ Len(raised) = 1
        /\ ExpectedClass[m] = "rate_limit" =>
              raised[1] = [tag |-> "Rate limit exceeded after",
                           attempts |-> max_retries, detail |-> <<>>]
        /\ ExpectedClass[m] = "api" =>
              raised[1] = [tag |-> "API error", attempts |-> 0,
                           detail |-> ErrorTexts[m]]
        /\ ExpectedClass[m] = "generic" =>
              raised[1] = [tag |-> "Unexpected error", attempts |-> 0,
                           detail |-> ErrorTexts[m]]

C4_Witness ==
    /\ ex_pc = "raised"
    /\ Len(calls) = 3
    /\ calls[1] = 1
    /\ calls[3] = 6
    /\ raised[1].tag = "API error"
    /\ raised[1].detail = ErrorTexts[6]

\* ------------------------------------------------------------ claims C5..C7
\* What the two tiers hold for a key, as a caller sees it (None when nothing).
PrimaryHolds(key) ==
    IF redis_store[key] = <<>> THEN NoneVal ELSE PickleLoads(redis_store[key][1])

DurableHolds(key) ==
    IF disk_store[key] = <<>> THEN NoneVal ELSE disk_store[key][1]

PrimaryDown == ~redis_available \/ c_last.primary = "error"

\* The answer the claim states for the get that c_last records: the primary
\* tier's value when it has one and is reachable, else the durable tier's
\* value when it has one and its read works, else None.
ClaimedGetValue ==
    IF ~PrimaryDown /\ PrimaryHolds(c_last.key) # NoneVal
    THEN PrimaryHolds(c_last.key)
    ELSE IF c_last.durable # "error" THEN DurableHolds(c_last.key) ELSE NoneVal

ClaimedGetSkipsDurable ==
    (~PrimaryDown /\ PrimaryHolds(c_last.key) # NoneVal) <=> c_last.durable = "skipped"

\* C5 as stated: get returns the primary tier's value when the primary has
\* one, without querying the durable tier; when the primary misses, is
\* unavailable or raises, the durable tier's value if present, else None; it
\* never raises.
C5_Original_GetFallback ==
    c_last.op = "get" =>
        /\ c_last.value = ClaimedGetValue
        /\ (~PrimaryDown /\ PrimaryHolds(c_last.key) # NoneVal) =>
                c_last.durable = "skipped"
        /\ ~c_last.raised

\* C5 as amended: the same while the manager is enabled; a disabled manager
\* returns None without querying either tier. It never raises.
C5_GetFallback ==
    c_last.op = "get" =>
        /\ enabled =>
            /\ c_last.value = ClaimedGetValue
            /\ ClaimedGetSkipsDurable
            /\ c_last.primary # "skipped"
        /\ ~enabled =>
            /\ c_last.value = NoneVal
            /\ c_last.primary = "skipped"
            /\ c_last.durable = "skipped"
        /\ ~c_last.raised

C5_Witness ==
    /\ enabled
    /\ c_last.op = "get"
    /\ c_last.primary = "error"
    /\ PrimaryHolds(c_last.key) = <<1>>
    /\ c_last.durable = "hit"
    /\ c_last.value = <<2>>

\* C6 as stated: set always attempts the durable write, whatever the primary
\* write did, and returns true exactly when one of the two writes succeeded.
C6_Original_SetWritesDurable ==
    c_last.op = "set" =>
        /\ c_last.durable # "skipped"
        /\ c_last.success <=> (c_last.primary = "ok" \/ c_last.durable = "ok")

\* C6 as amended: the same while the manager is enabled, each successful
\* write leaving the value in its tier; a disabled manager attempts no write
\* and returns false.
C6_SetWritesDurable ==
    c_last.op = "set" =>
        /\ enabled =>
            /\ c_last.primary \in {"ok", "unavailable", "error"}
            /\ c_last.durable \in {"ok", "error"}
            /\ c_last.success <=> (c_last.primary = "ok" \/ c_last.durable = "ok")
            /\ c_last.primary = "ok" => PrimaryHolds(c_last.key) = c_last.val
            /\ c_last.durable = "ok" => DurableHolds(c_last.key) = c_last.val
        /\ ~enabled =>
            /\ c_last.primary = "skipped"
            /\ c_last.durable = "skipped"
            /\ ~c_last.success
        /\ ~c_last.raised

C6_Witness ==
    /\ enabled
    /\ c_last.op = "set"
    /\ c_last.primary = "error"
    /\ c_last.durable = "ok"
    /\ c_last.success
    /\ c_last.val = <<2>>
    /\ DurableHolds(c_last.key) = <<2>>

SetThenGet ==
    /\ c_prev.op = "set"
    /\ c_last.op = "get"
    /\ c_last.key = c_prev.key

BothKeysDerived == k_key1 # NoKey /\ k_key2 # NoKey

SamePairs(kw1, kw2) ==
    {kw1[i] : i \in 1..Len(kw1)} = {kw2[i] : i \in 1..Len(kw2)}

\* C8: _generate_cache_key is deterministic and independent of the order of
\* the keyword arguments: the same prefix, the same positional arguments and
\* the same keyword/value pairs in any order give the same key.
C8_KeyIgnoresKeywordOrder ==
    ( /\ BothKeysDerived
      /\ k_call1.kind = "direct"
      /\ k_call2.kind = "direct"
      /\ k_call1.prefix = k_call2.prefix
      /\ k_call1.args = k_call2.args
      /\ SamePairs(k_call1.kwargs, k_call2.kwargs) )
    => k_key1 = k_key2

C8_Witness ==
    /\ BothKeysDerived
    /\ k_call1.kind = "direct"
    /\ k_call1.prefix = k_call2.prefix
    /\ k_call1.args = k_call2.args
    /\ k_call1.kwargs = <<<<2, 1>>, <<1, 2>>>>
    /\ k_call2.kwargs = <<<<1, 2>>, <<2, 1>>>>
    /\ k_key1 = k_key2

\* C9: two generate_destinations calls whose requests agree on theme, count
\* and include_activities use the same cache key, whichever service instance
\* handles them and whatever the other request fields hold.
C9_KeyFromThemeCountFlag ==
    ( /\ BothKeysDerived
      /\ k_call1.kind = "wrapper"
      /\ k_call2.kind = "wrapper"
      /\ k_call1.request.theme = k_call2.request.theme
      /\ k_call1.request.count = k_call2.request.count
      /\ k_call1.request.include_activities = k_call2.request.include_activities )
    => k_key1 = k_key2

\* ----------------------------------------------------------------- claim C10
HeldSomething == g_held.primary # <<>> \/ g_held.durable # <<>>

HeldEntries ==
    {PickleLoads(g_held.primary[i]) : i \in 1..Len(g_held.primary)}
    \cup {g_held.durable[i] : i \in 1..Len(g_held.durable)}

ServedFromCache ==
    /\ g_pc = "returned"
    /\ g_result \in HeldEntries
    /\ g_exec = <<>>
    /\ g_sets = <<>>

\* C10 as written: whenever caching is enabled and a tier holds an entry under
\* the request's key, the call returns that entry without any executor call
\* and without a cache write.
C10_Original_HitSkipsWork ==
    (enable_caching /\ g_pc # "idle" /\ HeldSomething) => ServedFromCache

\* C10: when caching is enabled and the lookup under the request's key yields
\* an entry (the primary tier holds it and is read, or else the durable tier
\* holds it and is read), generate_destinations returns that entry, makes no
\* call through the request executor and makes no cache write.
C10_HitSkipsWork ==
    (enable_caching /\ g_pc # "idle" /\ g_lookup.value # NoneVal)
    => (ServedFromCache /\ g_result = g_lookup.value)

C10_Witness ==
    /\ enable_caching
    /\ g_calls = 2
    /\ g_pc = "returned"
    /\ g_request.include_activities
    /\ g_lookup.primary = "miss"
    /\ g_lookup.durable = "hit"
    /\ g_result = <<GenerationResponse(<<[place |-> 1, activities |-> <<1>>]>>, g_request)>>
    /\ g_exec = <<>>
    /\ g_sets = <<>>

\* ------------------------------------------------------------ claims C11..C14
Places(seq) == [i \in 1..Len(seq) |-> seq[i].place]

ValidRecords(records) == SelectSeq(records, RecordValid)

IsPrefix(a, b) == Len(a) <= Len(b) /\ a = SubSeq(b, 1, Len(a))

ActivityCalls == SubSeq(g_exec, 2, Len(g_exec))

BodyReturned == g_pc = "returned" /\ g_exec # <<>>

\* C11: within one generate_destinations call the executor calls are issued
\* one at a time (only the last call issued can be unfinished), the first is
\* the destination-listing call and every later one is an activity call; when
\* activities are requested the activity calls go, in listing order, to the
\* records that became destinations, and none is made otherwise; the
\* response is returned only when no call is unfinished and every such
\* destination has had its activity call.
C11_OneCallAtATime ==
    /\ \A i \in 1..Len(g_exec) :
        /\ g_exec[i].outcome = "pending" => i = Len(g_exec)
        /\ (g_exec[i].context = "destination generation") <=> (i = 1)
    /\ IF g_request.include_activities
       THEN IsPrefix(Places(ActivityCalls), Places(ValidRecords(g_records)))
       ELSE Len(g_exec) <= 1
    /\ g_pc \in {"returned", "raised"} =>
        \A i \in 1..Len(g_exec) : g_exec[i].outcome # "pending"
    /\ (BodyReturned /\ g_request.include_activities) =>
        Places(ActivityCalls) = Places(ValidRecords(g_records))

C11_Witness ==
    /\ BodyReturned
    /\ g_request.include_activities
    /\ Places(g_records) = <<1, 2>>
    /\ Places(g_exec) = <<0, 1, 2>>
    /\ g_exec[2].outcome = "raised"
    /\ g_exec[3].outcome = "returned"

\* C12: a record that fails while it is processed is omitted and does not
\* abort the batch: once the listing has been parsed the call does not raise,
\* and the response holds the destinations of all the other records, in their
\* original order.
C12_BadRecordIsSkipped ==
    /\ g_records # <<>> => g_pc # "raised"
    /\ IsPrefix(Places(g_dests), Places(ValidRecords(g_records)))
    /\ BodyReturned =>
        /\ Places(g_dests) = Places(ValidRecords(g_records))
        /\ g_result = <<GenerationResponse(g_dests, g_request)>>

C12_Witness ==
    /\ BodyReturned
    /\ Places(g_records) = <<0, 2>>
    /\ Places(g_result[1].destinations) = <<2>>

\* C13: a failed activity call gives its destination an empty activity list
\* and raises nothing: the destination is in the response with no activities
\* and the records after it are processed as usual.
C13_ActivityFailureIsLocal ==
    /\ (\E i \in 2..Len(g_exec) : g_exec[i].outcome = "raised") => g_pc # "raised"
    /\ g_request.include_activities =>
        \A i \in 1..Len(g_dests) :
            /\ g_dests[i].place = g_exec[i + 1].place
            /\ g_exec[i + 1].outcome = "raised" => g_dests[i].activities = <<>>
    /\ (BodyReturned /\ g_request.include_activities) =>
        /\ Len(g_dests) = Len(ValidRecords(g_records))
        /\ Len(g_result[1].destinations) = Len(ActivityCalls)

C13_Witness ==
    /\ BodyReturned
    /\ Len(g_exec) = 3
    /\ Places(g_records) = <<1, 2>>
    /\ g_exec[2].outcome = "raised"
    /\ g_exec[3].outcome = "returned"
    /\ g_result[1].destinations =
           <<[place |-> 1, activities |-> <<>>], [place |-> 2, activities |-> <<1>>]>>

\* C14: when the destination-listing call raises (its retries are exhausted),
\* generate_destinations raises DestinationGenerationError, has made no
\* activity call and returns nothing, not even a partial response.
C14_ListingFailureAborts ==
    (g_exec # <<>> /\ g_exec[1].outcome = "raised") =>
        /\ g_pc = "raised"
        /\ g_error = "DestinationGenerationError"
        /\ Len(g_exec) = 1
        /\ g_dests = <<>>
        /\ g_result = <<>>
        /\ g_sets = <<>>

C14_Witness ==
    /\ g_pc = "raised"
    /\ g_error = "DestinationGenerationError"
    /\ Len(g_exec) = 1
    /\ g_exec[1].outcome = "raised"

\* ------------------------------------------------------------ claims C15..C18
ParseFinished == p_pc \in {"returned", "raised"}

AllIds(ok) == \A i \in 1..Len(p_input.ids) : ok[p_input.ids[i]]

\* C15: whatever text the destination-listing call answers, the call ends
\* with a response and raises nothing.
C15_ParseFailureNeverSurfaces ==
    ParseFinished => (p_pc = "returned" /\ p_error = "")

\* What the records of RecordSamples are, by hand: whether the record carries
\* a valid place and country, whether its other fields are valid, and the
\* destination expected of it.
RecordCarriesPlaceCountry == <<TRUE, TRUE, FALSE, FALSE, TRUE, FALSE>>

RecordOtherFieldsValid == <<TRUE, FALSE, TRUE, TRUE, TRUE, TRUE>>

RecordExpected == <<
    [place |-> <<"O", "s", "l", "o">>, country |-> <<"N", "o", "r", "w", "a", "y">>],
    [place |-> <<"L", "i", "m", "a">>, country |-> <<"P", "e", "r", "u">>],
    [place |-> <<>>, country |-> <<>>],
    [place |-> <<>>, country |-> <<>>],
    [place |-> <<"B", "e", "r", "n">>, country |-> <<"C", "H">>],
    [place |-> <<>>, country |-> <<>>] >>

ExpectedDestinations == [i \in 1..Len(p_input.ids) |-> RecordExpected[p_input.ids[i]]]

ParsedStrictly ==
    /\ p_pc # "start" => ~p_fallback
    /\ ParseFinished => (p_pc = "returned" /\ p_dests = ExpectedDestinations)

\* C16 as written: a well-formed {"destinations": [r1..rk]} whose records
\* each carry a valid place and country gives exactly k destinations, in
\* order, with the places and countries of the records, without fallback.
C16_Original_WellFormedYieldsAll ==
    (p_input.kind = "records" /\ AllIds(RecordCarriesPlaceCountry)) => ParsedStrictly

\* C16: a well-formed {"destinations": [r1..rk]} whose records each carry a
\* valid place and country, and no other field that fails validation, gives
\* exactly k destinations, in order, with the places and countries of the
\* records, and no fallback parsing is applied.
C16_WellFormedYieldsAll ==
    ( /\ p_input.kind = "records"
      /\ AllIds(RecordCarriesPlaceCountry)
      /\ AllIds(RecordOtherFieldsValid) ) => ParsedStrictly

C16_Witness ==
    /\ p_pc = "returned"
    /\ p_input = [kind |-> "records", ids |-> <<5, 1>>]
    /\ ~p_fallback
    /\ p_dests = <<[place |-> <<"B", "e", "r", "n">>, country |-> <<"C", "H">>],
                   [place |-> <<"O", "s", "l", "o">>, country |-> <<"N", "o", "r", "w", "a", "y">>]>>

\* What the lines of LineSamples are, by hand: whether the line has the form
\* 'Place, Country', whether it starts with a quote or a brace, and the text
\* before its first comma and after it, without the surrounding blanks.
LineHasForm == <<TRUE, TRUE, FALSE, TRUE, FALSE>>

LineStartsPlain == <<TRUE, TRUE, TRUE, FALSE, TRUE>>

LineExpected == <<
    [place |-> <<"O", "s", "l", "o">>, country |-> <<"N", "o", "r", "w", "a", "y">>],
    [place |-> <<"L", "i", "m", "a">>, country |-> <<"P", "e", "r", "u", ",", " ", "S", "o", "u", "t", "h">>],
    [place |-> <<"R", "o", "m", "e">>, country |-> <<>>],
    [place |-> <<"\"", "N", "i", "c", "e", "\"">>, country |-> <<"F", "r", "a", "n", "c", "e">>],
    [place |-> <<>>, country |-> <<>>] >>

\* The records of destination_data, reduced to place and country.
ParsedRecords ==
    LET records == DictGet(p_data, KeyDestinations, JList(<<>>)).items IN
    [i \in 1..Len(records) |->
        [place |-> DictGet(records[i], KeyPlace, JNull).s,
         country |-> DictGet(records[i], KeyCountry, JNull).s]]

ExpectedLineRecords(n) == [i \in 1..n |-> LineExpected[p_input.ids[i]]]

\* C17 as written: n lines 'Place, Country' give n records by fallback
\* parsing, one per line in line order.
C17_Original_OneRecordPerLine ==
    (p_input.kind = "lines" /\ AllIds(LineHasForm) /\ p_pc # "start") =>
        (p_fallback /\ ParsedRecords = ExpectedLineRecords(Len(p_input.ids)))

\* C17: n lines 'Place, Country', none starting with a quote or a brace,
\* give by fallback parsing one record per line for the first five lines, in
\* line order, each with the text before the first comma as place and the
\* remainder as country; the lines after the fifth are ignored.
C17_OneRecordPerLine ==
    ( /\ p_input.kind = "lines"
      /\ AllIds(LineHasForm)
      /\ AllIds(LineStartsPlain)
      /\ p_pc # "start" ) =>
        /\ p_fallback
        /\ ParsedRecords =
               ExpectedLineRecords(IF Len(p_input.ids) < 5 THEN Len(p_input.ids) ELSE 5)

C17_Witness ==
    /\ p_pc = "parsed"
    /\ p_input = [kind |-> "lines", ids |-> <<1, 2, 2, 1, 2, 1>>]
    /\ p_fallback
    /\ Len(ParsedRecords) = 5
    /\ ParsedRecords[5] = [place |-> <<"L", "i", "m", "a">>, country |-> <<"P", "e", "r", "u", ",", " ", "S", "o", "u", "t", "h">>]

\* C18: in fallback parsing a line that names a place and has no comma
\* (here the line Rome, among the first five) gives a record with that place
\* and the country "Unknown".
C18_PlaceWithoutCountry ==
    ( /\ p_input.kind = "lines"
      /\ p_pc # "start"
      /\ \E i \in 1..Len(p_input.ids) : i <= 5 /\ p_input.ids[i] = 3 ) =>
        \E k \in 1..Len(ParsedRecords) :
            ParsedRecords[k] = [place |-> <<"R", "o", "m", "e">>, country |-> <<"U", "n", "k", "n", "o", "w", "n">>]

\* ------------------------------------------------------------------ claim C19
\* What each record of ActivitySamples with a type string and nothing else
\* wrong is expected to carry as its type, written down by hand: an alias,
\* no category at all, a category in other letters, a category itself,
\* a category itself.
ExpectedType ==
    (1 :> <<"C", "u", "l", "t", "u", "r", "a", "l">>) @@ (2 :> <<"O", "u", "t", "d", "o", "o", "r">>) @@ (3 :> <<"I", "n", "d", "o", "o", "r">>)
    @@ (4 :> <<"E", "d", "u", "c", "a", "t", "i", "o", "n", "a", "l">>) @@ (5 :> <<"I", "n", "d", "o", "o", "r">>)

TheSixTypes ==
    {<<"O", "u", "t", "d", "o", "o", "r">>, <<"I", "n", "d", "o", "o", "r">>, <<"C", "u", "l", "t", "u", "r", "a", "l">>, <<"A", "d", "v", "e", "n", "t", "u", "r", "e">>, <<"R", "e", "l", "a", "x", "a", "t", "i", "o", "n">>, <<"E", "d", "u", "c", "a", "t", "i", "o", "n", "a", "l">>}

\* C19: the type of an activity built from a record with a type string is a
\* member of the fixed set of six: the target of the alias table for a known
\* composite ("Cultural/Educational" gives "Cultural"), else the category
\* equal to the string, else a category whose name occurs in the string
\* ignoring case, else "Outdoor" ("Underwater Basketry" gives "Outdoor").
C19_TypeNormalized ==
    \A i \in 1..Len(a_log) :
        /\ a_log[i].built => a_log[i].activity.activity_type \in TheSixTypes
        /\ a_input[i] \in DOMAIN ExpectedType =>
               /\ a_log[i].built
               /\ a_log[i].activity.activity_type = ExpectedType[a_input[i]]

C19_Witness ==
    /\ a_pc = "returned"
    /\ a_input = <<1, 2, 3>>
    /\ Len(a_activities) = 3
    /\ a_activities[1].activity_type = <<"C", "u", "l", "t", "u", "r", "a", "l">>
    /\ a_activities[2].activity_type = <<"O", "u", "t", "d", "o", "o", "r">>
    /\ a_activities[3].activity_type = <<"I", "n", "d", "o", "o", "r">>

\* ------------------------------------------------------------------ claim C20
\* The records of ActivitySamples no Activity can be made of, by hand: an
\* empty name, a null type, a duration of 200 hours, a difficulty of 9.
NotAnActivity == {6, 7, 8, 9}

\* The same with the record that has no name at all.
NotAnActivityAsStated == NotAnActivity \cup {5}

\* The names of the activities of the other records, by hand.
ExpectedName ==
    (1 :> <<"M", "u", "s", "e", "u", "m">>) @@ (2 :> <<"D", "i", "v", "e">>) @@ (3 :> <<"S", "p", "a">>) @@ (4 :> <<"T", "o", "u", "r">>)
    @@ (5 :> <<"U", "n", "k", "n", "o", "w", "n", " ", "A", "c", "t", "i", "v", "i", "t", "y">>)

ActivityNames == [i \in 1..Len(a_activities) |-> a_activities[i].name]

IsKept(id) == id \notin NotAnActivity

IsKeptAsStated(id) == id \notin NotAnActivityAsStated

NamesOfKept == Map(LAMBDA id : ExpectedName[id], SelectSeq(a_input, IsKept))

NamesOfKeptAsStated == Map(LAMBDA id : ExpectedName[id], SelectSeq(a_input, IsKeptAsStated))

\* C20 as stated: a record with a bad type value, an out-of-range duration or
\* difficulty, or a missing name is dropped on its own, the others are
\* returned in order.
C20_Original_BadActivityDroppedAlone ==
    a_pc = "returned" => ActivityNames = NamesOfKeptAsStated

\* C20: a record no Activity can be made of (a type value that is not a
\* string, an out-of-range duration or difficulty, an empty name) is
\* dropped on its own: the activities returned are those of the other
\* records, in order, and a list is returned whatever the records are; a
\* record with no name at all is kept under the name "Unknown Activity".
C20_BadActivityDroppedAlone ==
    /\ a_pc = "returned" => ActivityNames = NamesOfKept
    /\ a_pc = "returned" /\ ActivitiesUsable(a_data) => Len(a_log) = Len(a_input)
    /\ \A i \in 1..Len(a_log) : a_log[i].built = IsKept(a_input[i])

C20_Witness ==
    /\ a_pc = "returned"
    /\ a_input = <<1, 9, 4>>
    /\ ActivityNames = <<<<"M", "u", "s", "e", "u", "m">>, <<"T", "o", "u", "r">>>>
    /\ a_log[2].built = FALSE

\* ------------------------------------------------------------------ claim C21
\* The name of the activity each line of ActivityLineSamples is expected to
\* give, written down by hand, <<>> for none: a plain name, a line of JSON
\* syntax, a name of three letters, a line with a colon, a quoted name
\* after a dash.
LineNameExpected ==
    <<<<"S", "w", "i", "m", "m", "i", "n", "g">>, <<>>, <<>>, <<>>, <<"S", "a", "i", "l", "i", "n", "g">>>>

\* The same when every line without JSON syntax is taken as a name.
LineNameAsStated ==
    <<<<"S", "w", "i", "m", "m", "i", "n", "g">>, <<>>, <<"S", "k", "i">>, <<"T", "i", "p", ":", " ", "d", "i", "v", "e">>, <<"S", "a", "i", "l", "i", "n", "g">>>>

DefaultNames == <<<<"E", "x", "p", "l", "o", "r", "e", " ", "t", "h", "e", " ", "a", "r", "e", "a">>, <<"L", "o", "c", "a", "l", " ", "s", "i", "g", "h", "t", "s", "e", "e", "i", "n", "g">>>>

FallbackNames ==
    [i \in 1..Len(f_data.items[1].items) |-> f_data.items[1].items[i].items[1].s]

OrDefaults(names) == IF names = <<>> THEN DefaultNames ELSE names

\* Names expected of the input: twenty lines of JSON syntax use up the
\* lines looked at; at most five activities are made.
ExpectedFallbackNames ==
    IF f_input.pad >= ActivityLineLimit THEN DefaultNames
    ELSE OrDefaults(Take(SelectSeq(Map(LAMBDA id : LineNameExpected[id], f_input.ids),
                                   NonEmpty), 5))

StatedFallbackNames ==
    OrDefaults(SelectSeq(Map(LAMBDA id : LineNameAsStated[id], f_input.ids), NonEmpty))

FallbackDone == f_pc = "done" /\ f_fallback

\* Every activity made of a line carries the fields made up for it.
SynthesizedFields ==
    \A i \in 1..Len(f_data.items[1].items) :
        LET a == f_data.items[1].items[i] IN
        \/ FallbackNames = DefaultNames
        \/ /\ a.keys = ActivityKeys
           /\ a.items[3] = JStr(<<"O", "u", "t", "d", "o", "o", "r">>)
           /\ a.items[4] = JNum(2)
           /\ a.items[5] = JNum(3)

C21_WitnessDefaults ==
    /\ FallbackDone
    /\ f_input = [pad |-> 0, ids |-> <<2>>]
    /\ FallbackNames = DefaultNames

\* ------------------------------------------------------------------ claim C22
\* Which records of BoundRecordSamples and of BoundActivitySamples violate
\* no bound, by hand.
BoundRecordKept == <<TRUE, TRUE, TRUE, FALSE, FALSE, FALSE, FALSE, FALSE, FALSE>>

BoundActivityKept == <<TRUE, TRUE, TRUE, FALSE, FALSE, FALSE, FALSE>>

BoundPlace == <<<<"P", "1">>, <<"P", "2">>, <<"P", "3">>, <<"P", "4">>, <<"P", "5">>, <<"P", "6">>, <<"P", "7">>, <<"P", "8">>, <<"P", "9">>>>

BoundName == <<<<"A", "1">>, <<"A", "2">>, <<"A", "3">>, <<"A", "4">>, <<"A", "5">>, <<"A", "6">>, <<"A", "7">>>>

AbsentOrWithin(v, lo, hi) == v.t = "null" \/ (v.t = "num" /\ lo <= v.n /\ v.n <= hi)

CoordinatesWithin(v) ==
    \/ v.t = "null"
    \/ \E i, j \in 1..Len(v.keys) :
          /\ v.keys[i] = <<"l", "a", "t">> /\ -90 <= v.items[i].n /\ v.items[i].n <= 90
          /\ v.keys[j] = <<"l", "n", "g">> /\ -180 <= v.items[j].n /\ v.items[j].n <= 180

KeptInLog == SelectSeq(r_log, LAMBDA l : BoundRecordKept[l.rec])

KeptOfAnswer(ans) ==
    IF ans = 0 THEN <<>>
    ELSE Map(LAMBDA id : BoundName[id],
             SelectSeq(BoundAnswers[ans], LAMBDA id : BoundActivityKept[id]))

\* C22: every destination of the response has coordinates absent or with
\* latitude in [-90, 90] and longitude in [-180, 180], and rating absent or
\* in [0, 5]; every activity of it has duration absent or in [0, 168] and
\* difficulty absent or in [1, 5]; the records that violate a bound are
\* left out, the others are there in order.
C22_FieldsWithinBounds ==
    /\ \A i \in 1..Len(r_dests) :
          /\ CoordinatesWithin(r_dests[i].coordinates)
          /\ AbsentOrWithin(r_dests[i].rating, 0, 5)
          /\ \A j \in 1..Len(r_dests[i].activities) :
                /\ AbsentOrWithin(r_dests[i].activities[j].duration_hours, 0, 168)
                /\ AbsentOrWithin(r_dests[i].activities[j].difficulty_level, 1, 5)
    /\ Len(r_dests) = Len(KeptInLog)
    /\ \A i \in 1..Len(r_dests) :
          /\ r_dests[i].place = BoundPlace[KeptInLog[i].rec]
          /\ [j \in 1..Len(r_dests[i].activities) |-> r_dests[i].activities[j].name]
                 = KeptOfAnswer(KeptInLog[i].ans)

C22_Witness ==
    /\ r_pc = "returned"
    /\ r_log = <<[rec |-> 4, ans |-> 0], [rec |-> 2, ans |-> 3]>>
    /\ Len(r_dests) = 1
    /\ r_dests[1].place = <<"P", "2">>
    /\ r_dests[1].rating = JNum(5)
    /\ Len(r_dests[1].activities) = 1
    /\ r_dests[1].activities[1].duration_hours = JNum(168)

\* ------------------------------------------------------------------ claim C23
Statuses == [i \in 1..Len(m_polls) |-> m_polls[i].job.status]

LastStatus == IF m_polls = <<>> THEN Absent ELSE m_polls[Len(m_polls)].job.status

\* C23: when the polls so far reported queued, running, running, succeeded,
\* the monitor has returned "completed" with the model id of the last
\* record, after these 4 polls; and a poll that reported succeeded, failed
\* or cancelled is the last poll: the monitor has returned.
C23_CompletedAfterFourPolls ==
    /\ Statuses = <<"queued", "running", "running", "succeeded">> =>
          /\ m_pc = "returned"
          /\ m_result.status = "completed"
          /\ m_result.model_id = m_polls[4].job.fine_tuned_model
          /\ m_result.model_id # Absent
          /\ m_saves = <<m_result.model_id>>
    /\ \A i \in 1..Len(m_polls) :
          m_polls[i].job.status \in {"succeeded", "failed", "cancelled"} =>
              i = Len(m_polls) /\ m_pc = "returned"

C23_Witness ==
    /\ Statuses = <<"queued", "running", "running", "succeeded">>
    /\ m_pc = "returned"
    /\ m_result = [status |-> "completed", model_id |-> "ft:b", error |-> Absent]
    /\ m_now = 120

\* ------------------------------------------------------------------ claim C24
NoTerminalPoll ==
    \A i \in 1..Len(m_polls) : m_polls[i].job.status \notin {"succeeded", "failed", "cancelled"}

\* C24 as stated: a call that returns without any poll having reported a
\* terminal status returns "timeout".
C24_Original_TimeoutWithoutTerminal ==
    (m_pc = "returned" /\ NoTerminalPoll) => m_result.status = "timeout"

\* C24: a call that returns without any poll having reported a terminal
\* status returns a result, after more than max_wait_time has elapsed, whose
\* status is "timeout", or "monitoring_failed" when the last poll raised an
\* error; it does not raise.
C24_TimeoutWithoutTerminal ==
    (m_pc = "returned" /\ NoTerminalPoll) =>
        /\ m_now > m_max_wait
        /\ \/ m_result.status = "timeout"
           \/ m_result.status = "monitoring_failed" /\ LastStatus = "raise"

C24_Witness ==
    /\ m_pc = "returned"
    /\ m_max_wait = 60
    /\ Statuses = <<"queued", "running">>
    /\ m_result.status = "timeout"

\* ------------------------------------------------------------------ claim C25
\* C25: when a poll reports failed or cancelled, the monitor returns at
\* once, with no sleep and no further poll, a result whose status is
\* "failed" or "cancelled" and which carries the error detail of the
\* provider's record.
C25_FailureReturnsErrorDetail ==
    LastStatus \in {"failed", "cancelled"} =>
        /\ m_pc = "returned"
        /\ m_result.status = LastStatus
        /\ \A k \in 1..Len(m_sleeps) : m_sleeps[k] < Len(m_polls)
        /\ m_result.error = m_polls[Len(m_polls)].job.error

\* ------------------------------------------------------------------ claim C26
SleepsAfter(i) == {k \in 1..Len(m_sleeps) : m_sleeps[k] = i}

\* C26: neither a status the monitor does not know nor an error raised by a
\* poll ends the monitoring within the budget: every poll but the last is
\* followed by exactly one sleep, a call that returned after such a poll
\* returned with the budget exceeded, and a later poll that reports
\* succeeded gives "completed". "timeout" and "monitoring_failed" are
\* returned only with max_wait_time exceeded, "monitoring_failed" only when
\* the most recent poll raised an error.
C26_OnlyBudgetEndsMonitoring ==
    /\ \A i \in 1..(Len(m_polls) - 1) : Cardinality(SleepsAfter(i)) = 1
    /\ (m_pc = "returned" /\ LastStatus \in {"paused", "raise"}) =>
          /\ Cardinality(SleepsAfter(Len(m_polls))) = 1
          /\ m_now > m_max_wait
    /\ LastStatus = "succeeded" => m_result.status = "completed"
    /\ m_result.status \in {"timeout", "monitoring_failed"} => m_now > m_max_wait
    /\ m_result.status = "monitoring_failed" => LastStatus = "raise"

C26_Witness ==
    /\ m_pc = "returned"
    /\ Statuses = <<"paused", "raise", "succeeded">>
    /\ m_result.status = "completed"
    /\ m_now = 90

C26_WitnessMonitoringFailed ==
    /\ m_pc = "returned"
    /\ LastStatus = "raise"
    /\ m_result.status = "monitoring_failed"

\* ------------------------------------------------------------------ claim C27
ResultStatuses == {"completed", "failed", "cancelled", "timeout", "monitoring_failed"}

\* C27: with every sleep advancing the clock by its interval, each call with
\* a finite max_wait_time eventually returns, whatever the statuses and the
\* errors of the polls, with one of the statuses completed, failed,
\* cancelled, timeout, monitoring_failed; no poll is ever held back by the
\* limit on the polls followed.
C27_MonitorReturns ==
    /\ <>(m_pc = "returned")
    /\ [](m_pc = "returned" => m_result.status \in ResultStatuses)
    /\ [](m_pc = "poll" => Len(m_polls) < MaxPolls)

C27_Witness ==
    /\ m_pc = "returned"
    /\ m_max_wait = 120
    /\ Len(m_polls) = 5
    /\ Statuses = <<"running", "paused", "running", "paused", "running">>
    /\ m_result.status = "timeout"

\* ------------------------------------------------------------------ claim C28
\* C28: no status poll is issued at a moment when the time elapsed since the
\* monitor started exceeds max_wait_time, after a sleep of the normal path
\* and after the sleep that follows an error alike.
C28_NoPollBeyondBudget ==
    /\ \A i \in 1..Len(m_polls) : m_polls[i].at <= m_max_wait
    /\ m_pc = "poll" => m_now <= m_max_wait

C28_Witness ==
    /\ m_pc = "returned"
    /\ m_max_wait = 60
    /\ Statuses = <<"raise", "queued">>
    /\ m_polls[2].at = 60
    /\ m_now = 120
    /\ m_result.status = "timeout"

\* ------------------------------------------------------------------ claim C29
\* The jobs that reached succeeded and whose artifact was written in full.
SucceededJobs ==
    {art_saves[k].job : k \in {i \in 1..Len(art_saves) : art_saves[i].outcome = "written"}}

ArtifactsOf(job) == {t \in Stamps : art_files[t].job = job}

\* C29: for each job that reached succeeded (and whose write raised
\* nothing) exactly one model metadata artifact is written, and no later
\* operation, a second monitor call on the same job or the completion of
\* another job, changes or replaces an artifact already written.
C29_ArtifactWrittenOnce ==
    /\ \A job \in SucceededJobs : Cardinality(ArtifactsOf(job)) = 1
    /\ \A k \in 1..Len(art_saves) :
          art_saves[k].outcome = "written" =>
              art_files[art_saves[k].at] = ModelInfo(art_saves[k].job)

\* ------------------------------------------------------------------ claim C30
IsPrefixOfSteps ==
    /\ Len(pl_steps) <= Len(PipelineSteps)
    /\ \A i \in 1..Len(pl_steps) : pl_steps[i] = PipelineSteps[i]

\* C30: the pipeline calls generate data, upload, create job, monitor in
\* this order, each at most once; when a step raises, it is the last step
\* called and the pipeline returns None; a model id is returned only after
\* all four steps.
C30_StepsInOrderAbortOnFailure ==
    /\ IsPrefixOfSteps
    /\ pl_failed # Absent =>
          /\ pl_steps[Len(pl_steps)] = pl_failed
          /\ pl_pc = "done"
          /\ pl_return = "None"
    /\ pl_return \notin {Absent, "None"} => pl_steps = PipelineSteps

C30_Witness ==
    /\ pl_pc = "done"
    /\ pl_steps = <<"generate", "upload">>
    /\ pl_failed = "upload"
    /\ pl_return = "None"

C30_WitnessCompleted ==
    /\ pl_pc = "done"
    /\ pl_steps = PipelineSteps
    /\ pl_return = "ft:a"

\* ------------------------------------------------------------------ claim C31
\* C31: full_fine_tuning_pipeline never raises: once it is over it has
\* returned either a model id or None, and it returned the model id exactly
\* when monitor_fine_tuning_job returned the status "completed"; a failure
\* of any step and every other monitor status give None.
C31_ReturnsModelIdIffCompleted ==
    pl_pc = "done" =>
        /\ pl_return \in {"None", "ft:a", "ft:b"}
        /\ (pl_return \in {"ft:a", "ft:b"}) <=> (pl_result = "completed")
        /\ pl_failed # Absent => pl_return = "None"

C31_Witness ==
    /\ pl_pc = "done"
    /\ pl_result = "cancelled"
    /\ pl_failed = Absent
    /\ pl_return = "None"

C31_WitnessCompleted ==
    /\ pl_pc = "done"
    /\ pl_result = "completed"
    /\ pl_return = "ft:b"

\* ------------------------------------------------------------------ claim C32
CallsNamed(name) == {i \in 1..Len(pl_calls) : pl_calls[i].call = name}

\* C32: a failure of prepare_training_file or create_fine_tuned_model is
\* not recovered locally: the provider call that failed was made once and
\* is the last call made, no provider call is ever repeated, the step is
\* recorded as having raised, and no file id (upload) or job id (create)
\* comes back.
C32_ProviderFailureNotRetried ==
    /\ \A name \in {"files.create", "files.retrieve", "fine_tuning.jobs.create"} :
          Cardinality(CallsNamed(name)) <= 1
    /\ \A i \in 1..Len(pl_calls) : ~pl_calls[i].ok => i = Len(pl_calls)
    /\ pl_failed = "upload" =>
          /\ pl_file_id = Absent
          /\ pl_job_id = Absent
          /\ pl_calls \in {<<>>, <<[call |-> "files.create", ok |-> FALSE]>>}
    /\ pl_failed = "create" =>
          /\ pl_job_id = Absent
          /\ ~pl_calls[Len(pl_calls)].ok
          /\ pl_calls[Len(pl_calls)].call \in {"files.retrieve", "fine_tuning.jobs.create"}
    /\ (pl_calls # <<>> /\ ~pl_calls[Len(pl_calls)].ok) => pl_failed \in {"upload", "create"}

C32_Witness ==
    /\ pl_failed = "upload"
    /\ pl_calls = <<[call |-> "files.create", ok |-> FALSE]>>
    /\ pl_file_id = Absent
    /\ pl_pc = "done"

C32_WitnessCreate ==
    /\ pl_failed = "create"
    /\ pl_calls = <<[call |-> "files.create", ok |-> TRUE],
                    [call |-> "files.retrieve", ok |-> TRUE],
                    [call |-> "time.sleep", ok |-> TRUE],
                    [call |-> "fine_tuning.jobs.create", ok |-> FALSE]>>
    /\ pl_job_id = Absent
    /\ pl_pc = "done"

\* ------------------------------------------------------------------ claim C38
\* C38 as stated: a call that exhausts its attempts has slept exactly
\* max_retries - 1 times and a call that succeeds on attempt N exactly N - 1
\* times.
C38_Original_SleepsOneLessThanAttempts ==
    /\ ex_pc = "raised" => Len(sleeps) = max_retries - 1
    /\ ex_pc = "returned" => Len(sleeps) = Len(calls) - 1

\* C38 as amended: _safe_api_request never sleeps after its final allowed
\* attempt: with max_retries >= 1 a call that exhausts its attempts has
\* slept exactly max_retries - 1 times, a call that succeeds on attempt N
\* exactly N - 1 times, and while the loop runs every failure so far was
\* followed by one sleep; with max_retries = 0 the call raises with no
\* attempt and no sleep.
C38_NoSleepAfterFinalAttempt ==
    /\ (ex_pc = "raised" /\ max_retries >= 1) =>
            /\ Len(calls) = max_retries
            /\ Len(sleeps) = max_retries - 1
    /\ (ex_pc = "raised" /\ max_retries = 0) => (calls = <<>> /\ sleeps = <<>>)
    /\ ex_pc = "returned" => Len(sleeps) = Len(calls) - 1
    /\ ex_pc = "loop" => Len(sleeps) = Len(calls)
    /\ Len(sleeps) <= IF max_retries >= 1 THEN max_retries - 1 ELSE 0

C38_Witness ==
    /\ max_retries = 4
    /\ ex_pc = "raised"
    /\ Len(calls) = 4
    /\ Len(sleeps) = 3

C38_WitnessSuccess ==
    /\ max_retries = 4
    /\ ex_pc = "returned"
    /\ Len(calls) = 3
    /\ Len(sleeps) = 2

\* ------------------------------------------------------------------ claim C40
LegacyLast == lg_calls[Len(lg_calls)]

\* C40: the legacy safe_request either returns the result of
\* request_function or fails with an error: an invocation is repeated only
\* after HTTP 429, at most 5 invocations are made, any other error
\* propagates after the first failing invocation, and when all 5
\* invocations are rate-limited the call fails instead of returning no
\* value.
C40_ReturnsResultOrFails ==
    /\ Len(lg_calls) <= LegacyMaxRetries
    /\ \A i \in 1..(Len(lg_calls) - 1) :
          lg_calls[i].kind = "http" /\ lg_calls[i].status = 429
    /\ lg_pc = "raised" =>
          /\ lg_calls # <<>>
          /\ LegacyLast.kind # "ok"
          /\ lg_raised = (IF LegacyLast.kind = "http" THEN "HTTPError" ELSE LegacyLast.value)
    /\ lg_pc = "returned" =>
          /\ lg_calls # <<>>
          /\ LegacyLast.kind = "ok"
          /\ lg_return = LegacyLast.value
    /\ (Len(lg_calls) = 5 /\ lg_pc # "loop"
            /\ \A i \in 1..5 : lg_calls[i].kind = "http" /\ lg_calls[i].status = 429)
          => lg_pc = "raised"

\* ------------------------------------------------------------------ claim C33
\* C33: the configuration values (default model name, fine-tuned model id
\* and flag, max retries, retry delay, caching-enabled flag) are read-only
\* during operation: no step of initiate_fine_tuning changes any of them.
C33_ConfigurationReadOnly ==
    [][/\ openai_model' = openai_model
       /\ fine_tuned_model_id' = fine_tuned_model_id
       /\ use_fine_tuned_model' = use_fine_tuned_model
       /\ max_retries' = max_retries
       /\ retry_delay' = retry_delay
       /\ enable_caching' = enable_caching]_vars

\* ------------------------------------------------------------------ claim C39
\* C39: when initiate_fine_tuning returns None (the pipeline returned None,
\* or any step, the re-initialisation included, raised) the settings
\* fine_tuned_model_id and use_fine_tuned_model hold the values they had
\* before the call; they differ only after a call that returned the new
\* model id.
C39_SettingsKeptWhenNoneReturned ==
    t_pc = "done" =>
        /\ t_return = "None" =>
              /\ fine_tuned_model_id = t_before.id
              /\ use_fine_tuned_model = t_before.use
        /\ t_return # "None" =>
              /\ fine_tuned_model_id = t_return
              /\ use_fine_tuned_model

\* ------------------------------------------------------------------ claim C36
\* C36: after a set(k, v) that returned true (the durable tier working for
\* both calls), the get(k) that follows it with no set in between returns v,
\* whatever the primary tier did during the set and does during the get: in
\* particular when the primary write failed while the primary tier still
\* holds an older value for k.
C36_GetAfterTrueSetReturnsValue ==
    ( /\ SetThenGet
      /\ c_prev.success
      /\ c_prev.durable = "ok"
      /\ c_last.durable # "error" )
    => c_last.value = c_prev.val

\* ------------------------------------------------------------------ claim C35
\* C35: an entry of either tier is removed or replaced only by a set:
\* CacheManager.get leaves both tiers as they were (a value found in the
\* durable tier is not copied into the primary tier), an entry that changes
\* changes to the value of the set just made under its key, and no operation
\* of the manager deletes an entry.
C35_OnlySetChangesEntries ==
    [][/\ c_last'.op = "get" =>
              (redis_store' = redis_store /\ disk_store' = disk_store)
       /\ \A k \in Keys :
            /\ redis_store'[k] # redis_store[k] =>
                  /\ c_last'.op = "set" /\ c_last'.key = k
                  /\ redis_store'[k] = <<[pickled |-> c_last'.val]>>
            /\ disk_store'[k] # disk_store[k] =>
                  /\ c_last'.op = "set" /\ c_last'.key = k
                  /\ disk_store'[k] = <<c_last'.val>>]_vars

\* A get answered by the durable tier; the primary tier, which is up and
\* was asked, still has no entry.
C35_Witness ==
    /\ enabled
    /\ redis_available
    /\ c_last.op = "get"
    /\ c_last.primary = "miss"
    /\ c_last.durable = "hit"
    /\ c_last.value = <<2>>
    /\ redis_store[c_last.key] = <<>>
    /\ disk_store[c_last.key] = <<<<2>>>>

\* ------------------------------------------------------------------ claim C34
\* C34: under every interleaving of concurrent set and get calls on one key,
\* the entry of each tier is at all times absent or exactly the value passed
\* by the last set that wrote that tier, every finished get returned absent
\* or, in full, a value passed by one of the set calls, and no call raised.
C34_LastWriterWinsPerTier ==
    /\ redis_store[SharedKey] =
          (IF cc_last_primary = <<>> THEN <<>> ELSE <<[pickled |-> cc_last_primary]>>)
    /\ disk_store[SharedKey] =
          (IF cc_last_durable = <<>> THEN <<>> ELSE <<cc_last_durable>>)
    /\ cc_last_primary \in {<<>>} \cup cc_passed
    /\ cc_last_durable \in {<<>>} \cup cc_passed
    /\ cc_passed \subseteq {<<1, 1>>, <<2, 2>>}
    /\ \A p \in Procs :
          /\ ~cc_result[p].raised
          /\ cc_result[p].value \in {<<>>} \cup cc_passed

\* Two sets ran interleaved: the tiers end with different last writers, and
\* a get that followed returned the primary tier's value whole.
C34_Witness ==
    /\ redis_store[SharedKey] = <<[pickled |-> <<2, 2>>]>>
    /\ disk_store[SharedKey] = <<<<1, 1>>>>
    /\ \E p \in Procs :
          /\ cc_pc[p] = "done"
          /\ cc_op[p] = "get"
          /\ cc_result[p].value = <<2, 2>>

\* ------------------------------------------------------------------ claim C37
\* C37: a generate_destinations call that raises makes no cache write and
\* leaves both tiers as they were; the tiers change and a CacheManager.set
\* is made only in the step in which the wrapped call returns its response,
\* and then exactly one set is made, under the key that was looked up and
\* with that response; entries of other keys stay as they were.
C37_WriteOnlyAfterResponse ==
    [][/\ g_pc' = "raised" =>
              /\ g_sets' = <<>>
              /\ redis_store' = redis_store
              /\ disk_store' = disk_store
       /\ (redis_store' # redis_store \/ disk_store' # disk_store \/ g_sets' # <<>>) =>
              /\ g_pc = "dests" /\ g_pc' = "returned"
              /\ g_error' = ""
              /\ g_exec' # <<>>
              /\ Len(g_sets') = 1
              /\ g_sets'[1].op = "set"
              /\ g_sets'[1].key = g_lookup.key
              /\ g_sets'[1].key = g_key
              /\ g_sets'[1].val = g_result'
              /\ \A k \in GenKeys \ {g_key} :
                    redis_store'[k] = redis_store[k] /\ disk_store'[k] = disk_store[k]]_vars

\* A second call raised after a first one had written the cache.
C37_Witness ==
    /\ enable_caching
    /\ g_calls = 2
    /\ g_pc = "raised"
    /\ g_error = "DestinationGenerationError"
    /\ g_sets = <<>>
    /\ \E k \in GenKeys : disk_store[k] # <<>> /\ redis_store[k] # <<>>

C37_WitnessWritten ==
    /\ enable_caching
    /\ g_pc = "returned"
    /\ Len(g_sets) = 1
    /\ g_sets[1].success
    /\ disk_store[g_key] = <<g_result>>

====
